---- MODULE Spec2Model ----
(***************************************************************************)
(* procly: wait policy (wait_with_timeout over WaitOps and Clock, with the  *)
(* POSIX backend's waitpid/kill behind the WaitOps callbacks) and pipeline  *)
(* composition (spawn_pipeline, PipelineChild::wait).                       *)
(***************************************************************************)
EXTENDS Integers, Sequences, FiniteSets, TLC

VARIABLES
  \* ---- wait policy: one call of wait_with_timeout against one child ----
  wpc,            \* position inside wait_with_timeout
  now_,           \* the clock's current time point (ms)
  timeout,        \* std::optional<milliseconds> argument
  kill_grace,     \* milliseconds argument
  deadline,       \* local: clock.now() + *timeout
  grace_deadline, \* local: clock.now() + kill_grace
  wait_ret,       \* the Result<ExitStatus> the call returned
  calls,          \* every WaitOps / Clock call made by the call, in order
  child,          \* the child process: "running", "zombie" or "reaped"
  wstatus,        \* raw wait status the kernel holds for the child
  child_at_call,  \* history: the child's state when the call started
  exit_seen,      \* history: loop in which try_wait reported a status
  seen_status,    \* history: that status
  wb_result,      \* history: what wait_blocking returned
  op_failed,      \* history: a WaitOps call returned an error
  ops_log,        \* history: the WaitOps calls made and whether each succeeded
  \* ---- pipeline: one Pipeline, its spawn and the PipelineChild it yields ----
  ppc,            \* position inside Pipeline::spawn / PipelineChild::wait
  stages_,        \* Pipeline::stages_: the stage commands
  pipefail_,      \* Pipeline::pipefail_
  new_pgrp_,      \* Pipeline::new_pgrp_
  pipes,          \* inter-stage pipes currently held open by spawn_pipeline
  pipes_made,     \* history: create_pipe calls that succeeded in this spawn
  index,          \* loop index of the spawn loop / of the wait loop
  spawned,        \* std::vector<Spawned> of the stages started so far
  pipeline_pgid,  \* std::optional<int> pipeline_pgid
  spawn_ret,      \* what Pipeline::spawn returned
  spawn_specs,    \* backend log: the spec of every spawn call, in order
  spawn_failures, \* backend log: stage and error of every failed spawn call
  kill_pids,      \* backend log: pid of every kill call, in order
  terminate_pids, \* backend log: pid of every terminate call, in order
  signal_ret,     \* what PipelineChild::terminate / kill returned, "none" before the call
  wait_calls,     \* backend log: pid of every wait call, in order
  exit_of,        \* the exit status the backend reported for each pid
  status,         \* PipelineStatus being built: stages and aggregate
  pwait_ret,      \* what PipelineChild::wait returned
  \* ---- output drainer: one drain_pipes call and the writer behind the pipes ----
  dpc,            \* position inside drain_pipes
  present,        \* per target: pipe != nullptr && native_handle() >= 0
  left,           \* writer: bytes it still has to write to each stream
  wr,             \* writer: the write call in progress (stream, bytes left)
  wopen,          \* per stream: the write end is open
  pipe_buf,       \* per stream: bytes in the kernel's pipe buffer
  written,        \* history: bytes accepted by each pipe, in order
  out,            \* result.stdout_data / result.stderr_data
  done,           \* targets[i].done
  active,         \* local: number of targets not done
  rd_open,        \* per target: the PipeReader still holds its descriptor
  pollfds,        \* local: the pollfd array of the current poll
  poll_index,     \* local: next pollfds slot in the scan after poll
  tgt,            \* local: position of the scan over targets
  dresult,        \* what drain_pipes returned
  stalled,        \* history: streams on which a write blocked on a full buffer
  \* ---- POSIX backend: one spawn call on the fork/exec path and its child ----
  fpc,            \* the parent's position inside PosixBackend::spawn
  fspec,          \* the SpawnSpec: stdio kinds, process-group options, cwd
  fd_table,       \* descriptors open in the parent process
  cloexec,        \* descriptors that carry FD_CLOEXEC
  opened_fds,     \* local: std::vector<int> opened_fds
  parent_ends,    \* locals parent_stdin / parent_stdout / parent_stderr
  child_std,      \* locals child_stdin / child_stdout / child_stderr
  error_fds,      \* locals error_read_fd / error_write_fd
  injected,       \* descriptor another thread opened just before fork
  child_open_max, \* what sysconf(_SC_OPEN_MAX) answered inside the child
  cpc,            \* the forked child: its next step, or what became of it
  cfds,           \* descriptors open in the child
  child_log,      \* history: the steps the child performed, in order
  err_pipe,       \* error pipe: errno values written and not yet read
  err_wr_open,    \* the child still holds the error pipe's write end
  exit_code,      \* the child's exit code
  close_bound,    \* history: upper bound the close loop used
  fork_fds,       \* history: descriptors open in the parent when fork ran
  failed_step,    \* history: the child step that failed and its errno
  fret,           \* what spawn returned
  \* ---- the caller's side: Command::status / output, Child, PipelineChild ----
  hpc,            \* position inside the call, or the state of the handle
  hop,            \* the call in progress: status, output, spawn, pipeline_spawn
  hcmds,          \* the Command, or the stage commands of the Pipeline
  open_fds,       \* descriptors open in the parent process
  stage_ends,     \* the Spawned records the backend returned, one per stage
  impl_pipes,     \* Impl::stdin_pipe / stdout_pipe / stderr_pipe of the handle
  locals,         \* pipes moved out of the handle: locals of the call, or the caller's
  ncalls,         \* calls that have returned
  all_ok,         \* history: every call so far returned ok
  piped_calls,    \* history: successful calls that had all three streams piped
  hret,           \* what the last call returned
  \* ---- the backend's terminate / kill / signal on one Spawned record ----
  sig_spec,       \* new_process_group and process_group of the SpawnSpec
  sig_spawned,    \* the Spawned record the backend returned for it
  kill_calls,     \* log of ::kill calls: target, signal and the entry point used
  sig_ret,        \* what the last terminate / kill / signal returned
  \* ---- lowering: lower_command and lower_pipeline as functions ----
  lw_pc,          \* idle before the call, lowered after it
  lw_in,          \* the arguments of the call and the process environment
  lw_out,         \* what the call returned
  \* ---- spawn_pipeline: the inter-stage pipes and what flows through them ----
  wire_pc,        \* position inside spawn_pipeline
  wire_cmds,      \* the stdin / stdout selections of the stage commands
  wire_open,      \* descriptors of inter-stage pipes open in the parent
  file_of,        \* the open file each pipe descriptor refers to
  wire_pipes,     \* the vector pipes: first and second of each pair
  wire_made,      \* history: the pipes create_pipe returned
  wire_index,     \* index of the spawn loop
  wire_specs,     \* backend log: stdin_spec and stdout_spec of each spawn
  child_files,    \* the open files descriptors 0 and 1 of each child refer to
  stage_state,    \* running or exited, per spawned stage
  pipe_bytes,     \* bytes inside each pipe
  sent,           \* bytes each stage has written to its stdout
  got,            \* bytes each stage has read from its stdin
  wire_ret,       \* what spawn_pipeline returned
  \* ---- Child / PipelineChild handles and their take calls ----
  tk_handles,     \* the Impl each handle of the caller points to
  tk_spawns,      \* number of spawned objects so far
  tk_open,        \* descriptors open in the parent
  tk_wrapped,     \* history: the pipes each Impl wrapped when it was made
  take_log,       \* history: the take calls and what each returned
  \* ---- one output() call and the processes it spawned ----
  out_pc,         \* position inside Command::output / Pipeline::output
  out_op,         \* command or pipeline
  out_stages,     \* running or exited, per stage
  stdin_writer,   \* the parent holds the write end of the head's stdin pipe
  out_eager,      \* the stages exit without reading their stdin to the end
  out_todo,       \* the steps of the call still to be taken
  out_log,        \* history: the steps taken, with what held at each
  out_ret,        \* what the call returned
  \* ---- PipeReader / PipeWriter / unique_fd objects ----
  raii_alive,     \* the object exists
  raii_fd,        \* its fd_ member
  raii_made,      \* number of descriptors opened so far
  raii_closes,    \* history: number of ::close calls per descriptor
  raii_ops,       \* history: the kinds of operation applied so far
  \* ---- the process-wide override pointer and the scoped overrides ----
  ov_g,           \* g_backend_override / g_clock_override
  ov_prev,        \* previous_ of each scoped override
  ov_stacks,      \* the live scoped overrides of each thread, innermost last
  ov_live,        \* history: the live scoped overrides in construction order
  ov_made,        \* number of scoped overrides constructed so far
  ov_nested,      \* history: every scope that ended was the innermost live one
  \* ---- the descriptors 0, 1, 2 of a spawned child ----
  dup_pc,         \* idle, child (between fork and exec), execd, failed
  dup_spec,       \* the three StdioSpec values of the SpawnSpec
  dup_path,       \* fork or posix_spawn
  dup_tbl,        \* the child's descriptor table: the open file of each fd
  dup_todo        \* the descriptor operations the child has still to do

wvars == <<wpc, now_, timeout, kill_grace, deadline, grace_deadline, wait_ret,
           calls, child, wstatus, child_at_call, exit_seen, seen_status,
           wb_result, op_failed, ops_log>>

pvars == <<ppc, stages_, pipefail_, new_pgrp_, pipes, pipes_made, index, spawned,
           pipeline_pgid, spawn_ret, spawn_specs, spawn_failures, kill_pids,
           terminate_pids, signal_ret, wait_calls, exit_of, status, pwait_ret>>

dvars == <<dpc, present, left, wr, wopen, pipe_buf, written, out, done, active,
           rd_open, pollfds, poll_index, tgt, dresult, stalled>>

fvars == <<fpc, fspec, fd_table, cloexec, opened_fds, parent_ends, child_std,
           error_fds, injected, child_open_max, cpc, cfds, child_log, err_pipe,
           err_wr_open, exit_code, close_bound, fork_fds, failed_step, fret>>

hvars == <<hpc, hop, hcmds, open_fds, stage_ends, impl_pipes, locals, ncalls,
           all_ok, piped_calls, hret>>

svars == <<sig_spec, sig_spawned, kill_calls, sig_ret>>

lvars == <<lw_pc, lw_in, lw_out>>

qvars == <<wire_pc, wire_cmds, wire_open, file_of, wire_pipes, wire_made,
           wire_index, wire_specs, child_files, stage_state, pipe_bytes, sent,
           got, wire_ret>>

tvars == <<tk_handles, tk_spawns, tk_open, tk_wrapped, take_log>>

ovars == <<out_pc, out_op, out_stages, stdin_writer, out_eager, out_todo,
           out_log, out_ret>>

rvars == <<raii_alive, raii_fd, raii_made, raii_closes, raii_ops>>

xvars == <<ov_g, ov_prev, ov_stacks, ov_live, ov_made, ov_nested>>

uvars == <<dup_pc, dup_spec, dup_path, dup_tbl, dup_todo>>

vars == <<wvars, pvars, dvars, fvars, hvars, svars, lvars, qvars, tvars,
          ovars, rvars, xvars, uvars>>

\* what the actions of one subsystem leave alone
but_wvars == <<pvars, dvars, fvars, hvars, svars, lvars, qvars, tvars, ovars,
               rvars, xvars, uvars>>

but_pvars == <<wvars, dvars, fvars, hvars, svars, lvars, qvars, tvars, ovars,
               rvars, xvars, uvars>>

but_dvars == <<wvars, pvars, fvars, hvars, svars, lvars, qvars, tvars, ovars,
               rvars, xvars, uvars>>

but_fvars == <<wvars, pvars, dvars, hvars, svars, lvars, qvars, tvars, ovars,
               rvars, xvars, uvars>>

but_hvars == <<wvars, pvars, dvars, fvars, svars, lvars, qvars, tvars, ovars,
               rvars, xvars, uvars>>

but_svars == <<wvars, pvars, dvars, fvars, hvars, lvars, qvars, tvars, ovars,
               rvars, xvars, uvars>>

but_lvars == <<wvars, pvars, dvars, fvars, hvars, svars, qvars, tvars, ovars,
               rvars, xvars, uvars>>

but_qvars == <<wvars, pvars, dvars, fvars, hvars, svars, lvars, tvars, ovars,
               rvars, xvars, uvars>>

but_tvars == <<wvars, pvars, dvars, fvars, hvars, svars, lvars, qvars, ovars,
               rvars, xvars, uvars>>

but_ovars == <<wvars, pvars, dvars, fvars, hvars, svars, lvars, qvars, tvars,
               rvars, xvars, uvars>>

but_rvars == <<wvars, pvars, dvars, fvars, hvars, svars, lvars, qvars, tvars,
               ovars, xvars, uvars>>

but_xvars == <<wvars, pvars, dvars, fvars, hvars, svars, lvars, qvars, tvars,
               ovars, rvars, uvars>>

but_uvars == <<wvars, pvars, dvars, fvars, hvars, svars, lvars, qvars, tvars,
               ovars, rvars, xvars>>

\* ------------------------------------------------------------------ bounds
MaxTimeout == 2
MaxGrace == 2
MaxNow == 5
MaxStages == 3
\* Command::status / output calls in a row
MaxCalls == 2
\* terminate / kill / signal calls on one Spawned record
MaxSignals == 2
\* bytes a pipeline stage writes to its stdout
MaxSent == 1
\* take calls of the caller
MaxTakes == 3
\* Child / PipelineChild objects spawned
MaxObjects == 1
\* descriptors handed to owning objects
MaxOwned == 2
\* scoped overrides constructed
MaxOverrides == 4
\* drain_pipes: payload per stream, pipe capacity and read buffer size in bytes
MaxBytes == 2
PipeCap == 1
kBufferSize == 2

\* ------------------------------------------------------- program constants
kSleepStep == 1
PidBase == 100
kFallbackMaxFd == 256
kExecFailureExitCode == 127
kInjectedFdLowerBound == 200
kChildOpenMaxOverride == 3
\* sysconf(_SC_OPEN_MAX) of the parent process
ParentOpenMax == 1024
\* signal numbers
SIGUSR1 == 10
SIGKILL == 9
SIGTERM == 15

\* ------------------------------------------------------------ ExitStatus
NoStatus == [kind |-> "none", code |-> 0, native |-> 0]

exited(c, n) == [kind |-> "exited", code |-> c, native |-> n]

other(n) == [kind |-> "other", code |-> 0, native |-> n]

success(st) == st.kind = "exited" /\ st.code = 0

has_value(st) == st.kind # "none"

\* raw wait statuses: exit 0, exit 5, killed by SIGKILL, killed by SIGTERM
WaitStatuses == {0, 5 * 256, 9, 15}

WIFEXITED(raw) == raw % 128 = 0

WEXITSTATUS(raw) == (raw \div 256) % 256

to_exit_status(raw) ==
  IF WIFEXITED(raw) THEN exited(WEXITSTATUS(raw), raw) ELSE other(raw)

\* -------------------------------------------------------- Result<T> / Error
Ok(st) == [ok |-> TRUE, status |-> st, code |-> "ok"]

Err(c) == [ok |-> FALSE, status |-> NoStatus, code |-> c]

Pending == Err("pending")

TimeoutError == Err("timeout")

Nullopt == -1

\* ------------------------------------------------ WaitOps of PosixBackend
\* try_wait: waitpid(pid, WNOHANG): a zombie is reaped and its status
\* returned, a running child gives nullopt, a child that is gone gives ECHILD.
try_wait_result ==
  CASE child = "zombie" -> Ok(to_exit_status(wstatus))
    [] child = "running" -> Ok(NoStatus)
    [] OTHER -> Err("waitpid")

\* wait_blocking: waitpid(pid, 0): returns once the child is a zombie (and
\* reaps it), or fails with ECHILD when there is no such child.
\* faulty variant: waitpid with WNOHANG returns without waiting for the child
wait_blocking_nohang == TRUE

wait_blocking_enabled == child # "running"

wait_blocking_result ==
  IF child = "zombie" THEN Ok(to_exit_status(wstatus)) ELSE Err("waitpid")

reaped_child == IF child = "zombie" THEN "reaped" ELSE child

\* terminate / kill: kill(2) succeeds or fails with an errno
SignalResults == {Ok(NoStatus), Err("kill")}

\* ------------------------------------------------------ wait_with_timeout
\* faulty variant: the absent timeout is not tested
HasTimeout_always(t) == TRUE

HasTimeout(t) == t # Nullopt

NoTimeoutReturn(r) == r

\* faulty variant: the first loop reports timeout like the grace loop
PollExitReturn_timeout(st) == TimeoutError

PollExitReturn(st) == Ok(st)

\* faulty variant: the grace loop returns the late status
GraceExitReturn_status(st) == Ok(st)

GraceExitReturn(st) == TimeoutError

\* faulty variant: the result of the final wait_blocking is returned
EscalationReturn_result(r) == r

EscalationReturn(r) == TimeoutError

\* faulty variant: the error of a WaitOps call is not looked at
is_error_ignored(r) == FALSE

\* if (!wait_result) / if (!term_result) / if (!kill_result)
is_error(r) == ~r.ok

Return(r) ==
  /\ wait_ret' = r
  /\ wpc' = "done"

\* entry: if (!timeout) ...; else deadline = clock.now() + *timeout
Start ==
  /\ wpc = "idle"
  /\ \E t \in {Nullopt} \cup (0 .. MaxTimeout), g \in 0 .. MaxGrace :
       /\ timeout' = t
       /\ kill_grace' = g
       /\ child_at_call' = child
       /\ IF HasTimeout(t)
            THEN /\ deadline' = now_ + t
                 /\ calls' = Append(calls, "now")
                 /\ wpc' = "poll_check"
            ELSE /\ wpc' = "block"
                 /\ UNCHANGED <<deadline, calls>>
  /\ UNCHANGED <<now_, grace_deadline, wait_ret, child, wstatus, exit_seen,
                 seen_status, wb_result, op_failed>>
  /\ UNCHANGED ops_log
  /\ UNCHANGED but_wvars

\* return ops.wait_blocking();
WaitBlockingOnly ==
  /\ wpc = "block"
  /\ wait_blocking_enabled
  /\ calls' = Append(calls, "wait_blocking")
  /\ wb_result' = wait_blocking_result
  /\ child' = reaped_child
  /\ Return(NoTimeoutReturn(wait_blocking_result))
  /\ UNCHANGED <<now_, timeout, kill_grace, deadline, grace_deadline, wstatus,
                 child_at_call, exit_seen, seen_status, op_failed>>
  /\ ops_log' = Append(ops_log, [op |-> "wait_blocking", ok |-> wait_blocking_result.ok])
  /\ UNCHANGED but_wvars

\* while (clock.now() < deadline)
PollCheck ==
  /\ wpc = "poll_check"
  /\ calls' = Append(calls, "now")
  /\ wpc' = IF now_ < deadline THEN "poll_try" ELSE "terminate"
  /\ UNCHANGED <<now_, timeout, kill_grace, deadline, grace_deadline, wait_ret,
                 child, wstatus, child_at_call, exit_seen, seen_status,
                 wb_result, op_failed>>
  /\ UNCHANGED ops_log
  /\ UNCHANGED but_wvars

\* auto wait_result = ops.try_wait(); ... inside the first loop
PollTry ==
  /\ wpc = "poll_try"
  /\ calls' = Append(calls, "try_wait")
  /\ child' = reaped_child
  /\ LET r == try_wait_result IN
       IF is_error(r)
         THEN /\ Return(r)
              /\ op_failed' = TRUE
              /\ UNCHANGED <<exit_seen, seen_status>>
         ELSE IF has_value(r.status)
           THEN /\ Return(PollExitReturn(r.status))
                /\ exit_seen' = "poll"
                /\ seen_status' = r.status
                /\ UNCHANGED op_failed
           ELSE /\ wpc' = "poll_sleep"
                /\ UNCHANGED <<wait_ret, exit_seen, seen_status, op_failed>>
  /\ UNCHANGED <<now_, timeout, kill_grace, deadline, grace_deadline, wstatus,
                 child_at_call, wb_result>>
  /\ ops_log' = Append(ops_log, [op |-> "try_wait", ok |-> try_wait_result.ok])
  /\ UNCHANGED but_wvars

\* clock.sleep_for(kSleepStep); inside the first loop
PollSleep ==
  /\ wpc = "poll_sleep"
  /\ calls' = Append(calls, "sleep_for")
  /\ now_' = now_ + kSleepStep
  /\ wpc' = "poll_check"
  /\ UNCHANGED <<timeout, kill_grace, deadline, grace_deadline, wait_ret,
                 child, wstatus, child_at_call, exit_seen, seen_status,
                 wb_result, op_failed>>
  /\ UNCHANGED ops_log
  /\ UNCHANGED but_wvars

\* auto term_result = ops.terminate(); if (!term_result) return error
Terminate ==
  /\ wpc = "terminate"
  /\ calls' = Append(calls, "terminate")
  /\ \E r \in SignalResults :
       /\ ops_log' = Append(ops_log, [op |-> "terminate", ok |-> r.ok])
       /\ IF ~is_error(r)
            THEN /\ wpc' = "grace_init"
                 /\ UNCHANGED <<wait_ret, op_failed>>
            ELSE /\ Return(r)
                 /\ op_failed' = TRUE
  /\ UNCHANGED <<now_, timeout, kill_grace, deadline, grace_deadline, child,
                 wstatus, child_at_call, exit_seen, seen_status, wb_result>>
  /\ UNCHANGED but_wvars

\* auto grace_deadline = clock.now() + kill_grace;
GraceInit ==
  /\ wpc = "grace_init"
  /\ calls' = Append(calls, "now")
  /\ grace_deadline' = now_ + kill_grace
  /\ wpc' = "grace_check"
  /\ UNCHANGED <<now_, timeout, kill_grace, deadline, wait_ret, child, wstatus,
                 child_at_call, exit_seen, seen_status, wb_result, op_failed>>
  /\ UNCHANGED ops_log
  /\ UNCHANGED but_wvars

\* while (clock.now() < grace_deadline)
GraceCheck ==
  /\ wpc = "grace_check"
  /\ calls' = Append(calls, "now")
  /\ wpc' = IF now_ < grace_deadline THEN "grace_try" ELSE "kill"
  /\ UNCHANGED <<now_, timeout, kill_grace, deadline, grace_deadline, wait_ret,
                 child, wstatus, child_at_call, exit_seen, seen_status,
                 wb_result, op_failed>>
  /\ UNCHANGED ops_log
  /\ UNCHANGED but_wvars

\* auto wait_result = ops.try_wait(); ... inside the grace loop
GraceTry ==
  /\ wpc = "grace_try"
  /\ calls' = Append(calls, "try_wait")
  /\ child' = reaped_child
  /\ LET r == try_wait_result IN
       IF is_error(r)
         THEN /\ Return(r)
              /\ op_failed' = TRUE
              /\ UNCHANGED <<exit_seen, seen_status>>
         ELSE IF has_value(r.status)
           THEN /\ Return(GraceExitReturn(r.status))
                /\ exit_seen' = "grace"
                /\ seen_status' = r.status
                /\ UNCHANGED op_failed
           ELSE /\ wpc' = "grace_sleep"
                /\ UNCHANGED <<wait_ret, exit_seen, seen_status, op_failed>>
  /\ UNCHANGED <<now_, timeout, kill_grace, deadline, grace_deadline, wstatus,
                 child_at_call, wb_result>>
  /\ ops_log' = Append(ops_log, [op |-> "try_wait", ok |-> try_wait_result.ok])
  /\ UNCHANGED but_wvars

\* clock.sleep_for(kSleepStep); inside the grace loop
GraceSleep ==
  /\ wpc = "grace_sleep"
  /\ calls' = Append(calls, "sleep_for")
  /\ now_' = now_ + kSleepStep
  /\ wpc' = "grace_check"
  /\ UNCHANGED <<timeout, kill_grace, deadline, grace_deadline, wait_ret,
                 child, wstatus, child_at_call, exit_seen, seen_status,
                 wb_result, op_failed>>
  /\ UNCHANGED ops_log
  /\ UNCHANGED but_wvars

\* auto kill_result = ops.kill(); if (!kill_result) return error
Kill ==
  /\ wpc = "kill"
  /\ calls' = Append(calls, "kill")
  /\ \E r \in SignalResults :
       /\ ops_log' = Append(ops_log, [op |-> "kill", ok |-> r.ok])
       /\ IF ~is_error(r)
            THEN /\ wpc' = "reap"
                 /\ UNCHANGED <<wait_ret, op_failed>>
            ELSE /\ Return(r)
                 /\ op_failed' = TRUE
  /\ UNCHANGED <<now_, timeout, kill_grace, deadline, grace_deadline, child,
                 wstatus, child_at_call, exit_seen, seen_status, wb_result>>
  /\ UNCHANGED but_wvars

\* (void)ops.wait_blocking(); return Error{timeout}
Reap ==
  /\ wpc = "reap"
  /\ wait_blocking_enabled
  /\ calls' = Append(calls, "wait_blocking")
  /\ wb_result' = wait_blocking_result
  /\ child' = reaped_child
  /\ Return(EscalationReturn(wait_blocking_result))
  /\ UNCHANGED <<now_, timeout, kill_grace, deadline, grace_deadline, wstatus,
                 child_at_call, exit_seen, seen_status, op_failed>>
  /\ ops_log' = Append(ops_log, [op |-> "wait_blocking", ok |-> wait_blocking_result.ok])
  /\ UNCHANGED but_wvars

\* ------------------------------------------------------------ environment
\* the child process ends on its own or by a signal and becomes a zombie
ChildExits ==
  /\ wpc # "done"
  /\ child = "running"
  /\ \E raw \in WaitStatuses :
       /\ child' = "zombie"
       /\ wstatus' = raw
  /\ UNCHANGED <<wpc, now_, timeout, kill_grace, deadline, grace_deadline,
                 wait_ret, calls, child_at_call, exit_seen, seen_status,
                 wb_result, op_failed>>
  /\ UNCHANGED ops_log
  /\ UNCHANGED but_wvars

\* the steady clock advances while the call runs
Tick ==
  /\ wpc \notin {"idle", "done"}
  /\ now_ < MaxNow
  /\ now_' = now_ + 1
  /\ UNCHANGED <<wpc, timeout, kill_grace, deadline, grace_deadline, wait_ret,
                 calls, child, wstatus, child_at_call, exit_seen, seen_status,
                 wb_result, op_failed>>
  /\ UNCHANGED ops_log
  /\ UNCHANGED but_wvars

\* the three stdio streams of a child and their descriptor numbers
StdStreams == {"stdin", "stdout", "stderr"}

StdFd(name) == CASE name = "stdin" -> 0 [] name = "stdout" -> 1 [] name = "stderr" -> 2

NoEnds == [name \in StdStreams |-> Nullopt]

\* neither PipelineChild::terminate nor PipelineChild::kill has been called
NoSignals == [terminate |-> "none", kill |-> "none"]

\* the state before any backend spawn call
ForkIdle ==
  /\ fpc = "unused"
  /\ fspec = [stdin |-> "inherit", stdout |-> "inherit", stderr |-> "inherit",
              new_process_group |-> FALSE, process_group |-> Nullopt,
              cwd |-> FALSE, argv_empty |-> FALSE]
  /\ fd_table = {}
  /\ cloexec = {}
  /\ opened_fds = <<>>
  /\ parent_ends = NoEnds
  /\ child_std = [name \in StdStreams |-> StdFd(name)]
  /\ error_fds = [r |-> Nullopt, w |-> Nullopt]
  /\ injected = Nullopt
  /\ child_open_max = 0
  /\ cpc = "none"
  /\ cfds = {}
  /\ child_log = <<>>
  /\ err_pipe = <<>>
  /\ err_wr_open = FALSE
  /\ exit_code = Nullopt
  /\ close_bound = 0
  /\ fork_fds = {}
  /\ failed_step = [step |-> "none", errno |-> "none"]
  /\ fret = "pending"

\* descriptors the process holds before any call: stdio and one descriptor
\* of the caller's, which is also the one a Stdio::fd names
UserFd == 3

Baseline == {0, 1, 2, UserFd}

\* Pipeline::spawn has not been called
WireIdle ==
  /\ wire_pc = "idle"
  /\ wire_cmds = <<>>
  /\ wire_open = {}
  /\ file_of = <<>>
  /\ wire_pipes = <<>>
  /\ wire_made = <<>>
  /\ wire_index = 0
  /\ wire_specs = <<>>
  /\ child_files = <<>>
  /\ stage_state = <<>>
  /\ pipe_bytes = [k \in 1 .. MaxStages |-> <<>>]
  /\ sent = [j \in 1 .. MaxStages |-> <<>>]
  /\ got = [j \in 1 .. MaxStages |-> <<>>]
  /\ wire_ret = "pending"

\* no Child or PipelineChild has been made
TakeIdle ==
  /\ tk_handles = [h \in {1, 2} |-> [id |-> 0, pipes |-> NoEnds]]
  /\ tk_spawns = 0
  /\ tk_open = Baseline
  /\ tk_wrapped = <<>>
  /\ take_log = <<>>

\* no output() call has been made
OutIdle ==
  /\ out_pc = "idle"
  /\ out_op = "none"
  /\ out_stages = <<>>
  /\ stdin_writer = FALSE
  /\ out_eager = FALSE
  /\ out_todo = <<>>
  /\ out_log = <<>>
  /\ out_ret = "pending"

\* no pipe endpoint or unique_fd object exists
RaiiIdle ==
  /\ raii_alive = [o \in 1 .. 4 |-> FALSE]
  /\ raii_fd = [o \in 1 .. 4 |-> 0 - 1]
  /\ raii_made = 0
  /\ raii_closes = [d \in 0 .. MaxOwned - 1 |-> 0]
  /\ raii_ops = {}

\* no scoped override has been constructed
OvIdle ==
  /\ ov_g = 0
  /\ ov_prev = [ov \in 1 .. MaxOverrides |-> 0]
  /\ ov_stacks = [t \in {1, 2} |-> <<>>]
  /\ ov_live = <<>>
  /\ ov_made = 0
  /\ ov_nested = TRUE

\* no child is being set up
DupIdle ==
  /\ dup_pc = "idle"
  /\ dup_spec = <<>>
  /\ dup_path = "none"
  /\ dup_tbl = <<>>
  /\ dup_todo = <<>>

\* lower_command / lower_pipeline has not been called
LowerIdle ==
  /\ lw_pc = "idle"
  /\ lw_in = <<>>
  /\ lw_out = <<>>

\* the backend has spawned nothing to signal yet
NoSpawned == [pid |-> Nullopt, new_process_group |-> FALSE, pgid |-> Nullopt]

SigIdle ==
  /\ sig_spec = [stage |-> 0, new_process_group |-> FALSE,
                 process_group |-> Nullopt]
  /\ sig_spawned = NoSpawned
  /\ kill_calls = <<>>
  /\ sig_ret = "none"

\* the state before any Command or Pipeline call of the caller
CmdIdle ==
  /\ hpc = "idle"
  /\ hop = "none"
  /\ hcmds = <<>>
  /\ open_fds = Baseline
  /\ stage_ends = <<>>
  /\ impl_pipes = NoEnds
  /\ locals = NoEnds
  /\ ncalls = 0
  /\ all_ok = TRUE
  /\ piped_calls = 0
  /\ hret = "pending"

\* the two targets of drain_pipes: 1 is stdout, 2 is stderr
Streams == {1, 2}

\* the state before any drain_pipes call
DrainIdle ==
  /\ dpc = "unused"
  /\ present = [s \in Streams |-> FALSE]
  /\ left = [s \in Streams |-> 0]
  /\ wr = [cur |-> 0, n |-> 0]
  /\ wopen = [s \in Streams |-> FALSE]
  /\ pipe_buf = [s \in Streams |-> <<>>]
  /\ written = [s \in Streams |-> <<>>]
  /\ out = [s \in Streams |-> <<>>]
  /\ done = [s \in Streams |-> FALSE]
  /\ active = 0
  /\ rd_open = [s \in Streams |-> FALSE]
  /\ pollfds = <<>>
  /\ poll_index = 0
  /\ tgt = 0
  /\ dresult = "pending"
  /\ stalled = {}

\* the state before any Pipeline has been built
PipeIdle ==
  /\ ppc = "unused"
  /\ stages_ = <<>>
  /\ pipefail_ = FALSE
  /\ new_pgrp_ = FALSE
  /\ pipes = 0
  /\ pipes_made = 0
  /\ index = 0
  /\ spawned = <<>>
  /\ pipeline_pgid = Nullopt
  /\ spawn_ret = "pending"
  /\ spawn_specs = <<>>
  /\ spawn_failures = <<>>
  /\ kill_pids = <<>>
  /\ terminate_pids = <<>>
  /\ signal_ret = NoSignals
  /\ wait_calls = <<>>
  /\ exit_of = <<>>
  /\ status = [stages |-> <<>>, aggregate |-> NoStatus]
  /\ pwait_ret = Pending

\* the state before any wait_with_timeout call
WaitIdle ==
  /\ wpc = "idle"
  /\ now_ = 0
  /\ timeout = Nullopt
  /\ kill_grace = 0
  /\ deadline = 0
  /\ grace_deadline = 0
  /\ wait_ret = Pending
  /\ calls = <<>>
  /\ wstatus = 0
  /\ child_at_call = "running"
  /\ exit_seen = "none"
  /\ seen_status = NoStatus
  /\ wb_result = Pending
  /\ op_failed = FALSE
  /\ ops_log = <<>>

WaitInit ==
  /\ WaitIdle
  /\ child \in {"running", "reaped"}
  /\ PipeIdle
  /\ DrainIdle
  /\ ForkIdle
  /\ CmdIdle
  /\ SigIdle
  /\ LowerIdle
  /\ DupIdle
  /\ OvIdle
  /\ RaiiIdle
  /\ OutIdle
  /\ TakeIdle
  /\ WireIdle

WaitNext ==
  \/ Start
  \/ WaitBlockingOnly
  \/ PollCheck
  \/ PollTry
  \/ PollSleep
  \/ Terminate
  \/ GraceInit
  \/ GraceCheck
  \/ GraceTry
  \/ GraceSleep
  \/ Kill
  \/ Reap
  \/ ChildExits
  \/ Tick

WaitSpec == WaitInit /\ [][WaitNext]_vars

\* ---------------------------------------------------------------- pipeline
\* a stage command: what lower_command makes of it, and its own
\* SpawnOptions::new_process_group
StageCommands ==
  [lower : {"ok", "empty_argv", "invalid_stdio"}, npg : BOOLEAN]

\* what the backend's spawn may answer
SpawnErrors == {"spawn_failed", "ENOENT"}

\* what the backend's wait (no timeout) may answer
WaitResults ==
  {Ok(to_exit_status(raw)) : raw \in WaitStatuses} \cup {Err("waitpid")}

Last(seq) == seq[Len(seq)]

Pids(sp) == [i \in 1 .. Len(sp) |-> sp[i].pid]

\* lower_pipeline: an empty pipeline is invalid
lower_pipeline_ok(stgs) == Len(stgs) > 0

\* the spec handed to the backend for a stage: opts come from the command;
\* a pipeline in group mode makes the first stage a leader and sends the
\* later ones into the leader's group
StageSpec(cmd, i) ==
  [stage |-> i,
   new_process_group |->
     IF new_pgrp_ /\ pipeline_pgid = Nullopt THEN TRUE ELSE cmd.npg,
   process_group |->
     IF new_pgrp_ /\ pipeline_pgid # Nullopt THEN pipeline_pgid ELSE Nullopt]

\* the Spawned record the backend returns for a spec
SpawnedFor(spec, pid) ==
  [pid |-> pid,
   new_process_group |->
     spec.new_process_group \/ spec.process_group # Nullopt,
   pgid |-> IF spec.new_process_group THEN pid ELSE spec.process_group]

\* the aggregate status: the scan of PipelineChild::wait over status.stages
RECURSIVE FirstFailure(_, _)
FirstFailure(sts, i) ==
  IF i > Len(sts) THEN Last(sts)
  ELSE IF ~success(sts[i]) THEN sts[i]
  ELSE FirstFailure(sts, i + 1)

\* faulty variant: pipefail is ignored
Aggregate_tail(sts, pf) == Last(sts)

Aggregate(sts, pf) == IF ~pf THEN Last(sts) ELSE FirstFailure(sts, 1)

\* where a status of the wait loop is stored: status.stages.push_back
\* faulty variant: statuses are collected in reverse
PushStage_front(sts, st) == <<st>> \o sts

PushStage(sts, st) == Append(sts, st)

\* a Pipeline is built (operator| and the setters) and Pipeline::spawn starts:
\* lower_pipeline
SpawnBegin ==
  /\ ppc = "unused"
  /\ \E n \in 0 .. MaxStages :
       \E cmds \in [1 .. n -> StageCommands], pf \in BOOLEAN, pg \in BOOLEAN :
         /\ stages_' = cmds
         /\ pipefail_' = pf
         /\ new_pgrp_' = pg
         /\ IF lower_pipeline_ok(cmds)
              THEN /\ ppc' = "pipes"
                   /\ UNCHANGED spawn_ret
              ELSE /\ ppc' = "failed"
                   /\ spawn_ret' = "invalid_pipeline"
  /\ UNCHANGED <<pipes, index, spawned, pipeline_pgid, spawn_specs, kill_pids,
                 terminate_pids, wait_calls, exit_of, status, pwait_ret>>
  /\ UNCHANGED <<spawn_failures, pipes_made, signal_ret>>
  /\ UNCHANGED but_pvars

\* the loop creating stage_count - 1 pipes; a failed create_pipe returns the
\* error and the pipes made so far are closed with the vector
CreatePipes ==
  /\ ppc = "pipes"
  /\ \/ /\ pipes' = Len(stages_) - 1
        /\ pipes_made' = Len(stages_) - 1
        /\ ppc' = "stage"
        /\ index' = 0
        /\ UNCHANGED spawn_ret
     \/ /\ Len(stages_) > 1
        /\ \E made \in 0 .. Len(stages_) - 2 : pipes_made' = made
        /\ pipes' = 0
        /\ ppc' = "failed"
        /\ spawn_ret' = "pipe_failed"
        /\ UNCHANGED index
  /\ UNCHANGED <<stages_, pipefail_, new_pgrp_, spawned, pipeline_pgid,
                 spawn_specs, kill_pids, terminate_pids, wait_calls, exit_of,
                 status, pwait_ret>>
  /\ UNCHANGED <<spawn_failures, signal_ret>>
  /\ UNCHANGED but_pvars

\* if (!spec_result) return spec_result.error();
LowerFailed(e) ==
  /\ spawn_ret' = e
  /\ ppc' = "failed"
  /\ pipes' = 0
  /\ UNCHANGED <<index, spawned, pipeline_pgid>>

\* faulty variant: the loop remembers the error and goes on to the next stage
SpawnFailed_continue(e) ==
  /\ spawn_ret' = e
  /\ index' = index + 1
  /\ IF index + 1 = Len(stages_)
       THEN ppc' = "failed" /\ pipes' = 0
       ELSE UNCHANGED <<ppc, pipes>>
  /\ UNCHANGED <<spawned, pipeline_pgid>>

\* if (!spawned_result) return spawned_result.error();
SpawnFailed(e) ==
  /\ spawn_ret' = e
  /\ ppc' = "failed"
  /\ pipes' = 0
  /\ UNCHANGED <<index, spawned, pipeline_pgid>>

\* one iteration of the spawn loop: lower_command, backend spawn, push_back;
\* after the last stage the PipelineChild is built and returned
SpawnStage ==
  /\ ppc = "stage"
  /\ LET cmd == stages_[index + 1]
         spec == StageSpec(cmd, index)
         pid == PidBase + Len(spawn_specs) + 1
         sp == SpawnedFor(spec, pid)
     IN
       IF cmd.lower # "ok"
         THEN /\ LowerFailed(cmd.lower)
              /\ UNCHANGED <<spawn_specs, spawn_failures>>
         ELSE /\ spawn_specs' = Append(spawn_specs, spec)
              /\ \/ \E e \in SpawnErrors :
                      /\ spawn_failures' =
                           Append(spawn_failures, [stage |-> index, code |-> e])
                      /\ SpawnFailed(e)
                 \/ /\ spawned' = Append(spawned, sp)
                    /\ pipeline_pgid' =
                         IF new_pgrp_ /\ pipeline_pgid = Nullopt
                           THEN sp.pgid ELSE pipeline_pgid
                    /\ index' = index + 1
                    /\ UNCHANGED spawn_failures
                    /\ IF index + 1 = Len(stages_)
                         THEN /\ ppc' = "spawned"
                              /\ spawn_ret' = "ok"
                              /\ pipes' = 0
                         ELSE UNCHANGED <<ppc, spawn_ret, pipes>>
  /\ UNCHANGED <<stages_, pipefail_, new_pgrp_, kill_pids, terminate_pids,
                 wait_calls, exit_of, status, pwait_ret, pipes_made,
                 signal_ret>>
  /\ UNCHANGED but_pvars

\* faulty variant: the handle signals stage by stage in group mode too
SignalledPids_every(failed_at) == SubSeq(Pids(spawned), 1, failed_at)

\* the pids a PipelineChild signal call reaches: the leader alone in group
\* mode, else every stage in order up to and including the first failure
SignalledPids(failed_at) ==
  IF new_pgrp_ /\ Len(spawned) > 0
    THEN <<spawned[1].pid>>
    ELSE SubSeq(Pids(spawned), 1, failed_at)

\* the stage at which the loop of a signal call stops: the first stage whose
\* backend call fails, or the last stage when none does (failed_at = 0)
StoppedAt(failed_at) == IF failed_at = 0 THEN Len(spawned) ELSE failed_at

\* a signal call returns the first error of the backend, else success
SignalResult(failed_at) == IF failed_at = 0 THEN "ok" ELSE "kill_failed"

\* PipelineChild::terminate
PipelineTerminate ==
  /\ ppc = "spawned"
  /\ terminate_pids = <<>>
  /\ \E failed_at \in 0 .. Len(spawned) :
       /\ terminate_pids' = terminate_pids \o SignalledPids(StoppedAt(failed_at))
       /\ signal_ret' = [signal_ret EXCEPT !.terminate = SignalResult(failed_at)]
  /\ UNCHANGED <<ppc, stages_, pipefail_, new_pgrp_, pipes, index, spawned,
                 pipeline_pgid, spawn_ret, spawn_specs, kill_pids, wait_calls,
                 exit_of, status, pwait_ret>>
  /\ UNCHANGED <<spawn_failures, pipes_made>>
  /\ UNCHANGED but_pvars

\* PipelineChild::kill
PipelineKill ==
  /\ ppc = "spawned"
  /\ kill_pids = <<>>
  /\ \E failed_at \in 0 .. Len(spawned) :
       /\ kill_pids' = kill_pids \o SignalledPids(StoppedAt(failed_at))
       /\ signal_ret' = [signal_ret EXCEPT !.kill = SignalResult(failed_at)]
  /\ UNCHANGED <<ppc, stages_, pipefail_, new_pgrp_, pipes, index, spawned,
                 pipeline_pgid, spawn_ret, spawn_specs, terminate_pids,
                 wait_calls, exit_of, status, pwait_ret>>
  /\ UNCHANGED <<spawn_failures, pipes_made>>
  /\ UNCHANGED but_pvars

\* PipelineChild::wait starts: impl_ is set, status.stages is empty
PipelineWaitBegin ==
  /\ ppc = "spawned"
  /\ ppc' = "waiting"
  /\ index' = 0
  /\ status' = [stages |-> <<>>, aggregate |-> NoStatus]
  /\ UNCHANGED <<stages_, pipefail_, new_pgrp_, pipes, spawned, pipeline_pgid,
                 spawn_ret, spawn_specs, kill_pids, terminate_pids, wait_calls,
                 exit_of, pwait_ret>>
  /\ UNCHANGED <<spawn_failures, pipes_made, signal_ret>>
  /\ UNCHANGED but_pvars

\* one iteration of the wait loop: backend wait of the next stage; after the
\* last stage the aggregate is computed and the status returned
PipelineWaitStage ==
  /\ ppc = "waiting"
  /\ LET pid == spawned[index + 1].pid IN
       /\ wait_calls' = Append(wait_calls, pid)
       /\ \E r \in WaitResults :
            IF ~r.ok
              THEN /\ pwait_ret' = r
                   /\ ppc' = "done"
                   /\ UNCHANGED <<index, status, exit_of>>
              ELSE LET sts == PushStage(status.stages, r.status) IN
                   /\ exit_of' = Append(exit_of, [pid |-> pid, st |-> r.status])
                   /\ index' = index + 1
                   /\ IF index + 1 = Len(spawned)
                        THEN /\ status' = [stages |-> sts,
                                           aggregate |-> Aggregate(sts, pipefail_)]
                             /\ pwait_ret' = Ok(Aggregate(sts, pipefail_))
                             /\ ppc' = "done"
                        ELSE /\ status' = [status EXCEPT !.stages = sts]
                             /\ UNCHANGED <<pwait_ret, ppc>>
  /\ UNCHANGED <<stages_, pipefail_, new_pgrp_, pipes, spawned, pipeline_pgid,
                 spawn_ret, spawn_specs, kill_pids, terminate_pids>>
  /\ UNCHANGED <<spawn_failures, pipes_made, signal_ret>>
  /\ UNCHANGED but_pvars

PipeInit ==
  /\ PipeIdle
  /\ WaitIdle
  /\ child = "running"
  /\ DrainIdle
  /\ ForkIdle
  /\ CmdIdle
  /\ SigIdle
  /\ LowerIdle
  /\ DupIdle
  /\ OvIdle
  /\ RaiiIdle
  /\ OutIdle
  /\ TakeIdle
  /\ WireIdle

PipeNext ==
  \/ SpawnBegin
  \/ CreatePipes
  \/ SpawnStage
  \/ PipelineTerminate
  \/ PipelineKill
  \/ PipelineWaitBegin
  \/ PipelineWaitStage

PipeSpec == PipeInit /\ [][PipeNext]_vars

\* ----------------------------------------------------------- output drainer
\* the i-th byte written to stream s: every byte is distinct and names its
\* stream, so a dropped, repeated, reordered or misattributed byte shows
Byte(s, i) == 10 * s + i

Min(a, b) == IF a < b THEN a ELSE b

\* what poll reports for a read end, faulty variant: POLLHUP is not reported
revents_nohup(s) == pipe_buf[s] # <<>>

\* what poll reports for a read end: POLLIN with data buffered, POLLHUP once
\* the write end is closed
revents(s) == pipe_buf[s] # <<>> \/ ~wopen[s]

\* faulty variant: the descriptors are left in blocking mode
nonblocking_unset == FALSE

\* set_nonblocking made the read ends O_NONBLOCK: a read of an empty pipe
\* whose write end is open fails with EAGAIN instead of blocking
nonblocking == TRUE

\* faulty variant: the chunk lands in the other target's string
append_other(o, t, chunk) == [o EXCEPT ![3 - t] = @ \o chunk]

\* target.out->append(buffer.data(), count)
append(o, t, chunk) == [o EXCEPT ![t] = @ \o chunk]

\* the targets that are not done, in array order
NotDone == SelectSeq(<<1, 2>>, LAMBDA s : ~done[s])

\* the setup loop: count the present pipes, make them non-blocking, mark the
\* absent ones done; with nothing to drain the empty result is returned
DrainSetup ==
  /\ dpc = "setup"
  /\ LET n == Cardinality({s \in Streams : present[s]}) IN
       /\ done' = [s \in Streams |-> ~present[s]]
       /\ active' = n
       /\ IF n > 0
            THEN dpc' = "poll" /\ UNCHANGED dresult
            ELSE dpc' = "returned" /\ dresult' = "ok"
  /\ UNCHANGED <<present, left, wr, wopen, pipe_buf, written, out, rd_open,
                 pollfds, poll_index, tgt, stalled>>
  /\ UNCHANGED but_dvars

\* the setup loop when set_nonblocking fails on target t: return its error
DrainSetupFails ==
  /\ dpc = "setup"
  /\ \E t \in Streams :
       /\ present[t]
       /\ done' = [s \in Streams |-> s < t /\ ~present[s]]
       /\ active' = Cardinality({s \in Streams : s <= t /\ present[s]})
  /\ dpc' = "returned"
  /\ dresult' = "fcntl"
  /\ UNCHANGED <<present, left, wr, wopen, pipe_buf, written, out, rd_open,
                 pollfds, poll_index, tgt, stalled>>
  /\ UNCHANGED but_dvars

\* while (active > 0): fill pollfds with the targets not done and poll with
\* no timeout; poll returns once a polled pipe is readable or hung up (an
\* EINTR restarts the iteration with the same state)
DrainPoll ==
  /\ dpc = "poll"
  /\ \E s \in Streams : ~done[s] /\ revents(s)
  /\ pollfds' = [i \in 1 .. Len(NotDone) |->
                   [fd |-> NotDone[i], revents |-> revents(NotDone[i])]]
  /\ poll_index' = 0
  /\ tgt' = 1
  /\ dpc' = "scan"
  /\ UNCHANGED <<present, left, wr, wopen, pipe_buf, written, out, done,
                 active, rd_open, dresult, stalled>>
  /\ UNCHANGED but_dvars

\* poll fails with an errno other than EINTR
DrainPollFails ==
  /\ dpc = "poll"
  /\ dpc' = "returned"
  /\ dresult' = "poll"
  /\ UNCHANGED <<present, left, wr, wopen, pipe_buf, written, out, done,
                 active, rd_open, pollfds, poll_index, tgt, stalled>>
  /\ UNCHANGED but_dvars

\* the scan over targets after poll: skip a done target, take the next pollfd
\* for one that is not, read it if POLLIN or POLLHUP is set; past the last
\* target the while condition decides between another poll and the return
DrainScan ==
  /\ dpc = "scan"
  /\ IF tgt > 2
       THEN /\ IF active > 0
                 THEN dpc' = "poll" /\ UNCHANGED dresult
                 ELSE dpc' = "returned" /\ dresult' = "ok"
            /\ UNCHANGED <<tgt, poll_index>>
       ELSE IF done[tgt]
         THEN /\ tgt' = tgt + 1
              /\ UNCHANGED <<dpc, poll_index, dresult>>
         ELSE /\ poll_index' = poll_index + 1
              /\ IF pollfds[poll_index + 1].revents
                   THEN dpc' = "read" /\ UNCHANGED tgt
                   ELSE tgt' = tgt + 1 /\ UNCHANGED dpc
              /\ UNCHANGED dresult
  /\ UNCHANGED <<present, left, wr, wopen, pipe_buf, written, out, done,
                 active, rd_open, pollfds, stalled>>
  /\ UNCHANGED but_dvars

\* one read of the inner loop on pfd.fd: data is appended and the loop reads
\* again; 0 closes the pipe and marks the target done; EAGAIN leaves the
\* target for the next poll (an EINTR repeats the read with the same state)
DrainRead ==
  /\ dpc = "read"
  /\ LET fd == pollfds[poll_index].fd IN
       \/ /\ pipe_buf[fd] # <<>>
          /\ \E count \in 1 .. Min(Len(pipe_buf[fd]), kBufferSize) :
               /\ out' = append(out, tgt, SubSeq(pipe_buf[fd], 1, count))
               /\ pipe_buf' = [pipe_buf EXCEPT
                                 ![fd] = SubSeq(@, count + 1, Len(@))]
          /\ UNCHANGED <<dpc, tgt, done, active, rd_open, stalled>>
       \/ /\ pipe_buf[fd] = <<>>
          /\ ~wopen[fd]
          /\ rd_open' = [rd_open EXCEPT ![tgt] = FALSE]
          /\ done' = [done EXCEPT ![tgt] = TRUE]
          /\ active' = active - 1
          /\ tgt' = tgt + 1
          /\ dpc' = "scan"
          /\ UNCHANGED <<out, pipe_buf, stalled>>
       \/ /\ pipe_buf[fd] = <<>>
          /\ wopen[fd]
          /\ nonblocking
          /\ tgt' = tgt + 1
          /\ dpc' = "scan"
          /\ stalled' = IF wr.cur \notin {0, fd}
                           /\ Len(pipe_buf[wr.cur]) = PipeCap
                          THEN stalled \cup {wr.cur} ELSE stalled
          /\ UNCHANGED <<out, pipe_buf, done, active, rd_open>>
  /\ UNCHANGED <<present, left, wr, wopen, written, pollfds, poll_index,
                 dresult>>
  /\ UNCHANGED but_dvars

\* read fails with an errno other than EINTR and EAGAIN
DrainReadFails ==
  /\ dpc = "read"
  /\ dpc' = "returned"
  /\ dresult' = "read"
  /\ UNCHANGED <<present, left, wr, wopen, pipe_buf, written, out, done,
                 active, rd_open, pollfds, poll_index, tgt, stalled>>
  /\ UNCHANGED but_dvars

\* the writer calls write(2) with n bytes on one of its streams; the call
\* returns only when all n bytes are in the pipe
WriterBegin ==
  /\ wr.cur = 0
  /\ \E s \in Streams :
       /\ wopen[s]
       /\ left[s] > 0
       /\ \E n \in 1 .. left[s] : wr' = [cur |-> s, n |-> n]
  /\ UNCHANGED <<dpc, present, left, wopen, pipe_buf, written, out, done,
                 active, rd_open, pollfds, poll_index, tgt, dresult, stalled>>
  /\ UNCHANGED but_dvars

\* the kernel moves bytes of the pending write into the pipe buffer while it
\* has room; with a full buffer the writer stays blocked
WriterPush ==
  /\ wr.cur # 0
  /\ LET s == wr.cur
         space == PipeCap - Len(pipe_buf[s])
     IN
       /\ space > 0
       /\ \E k \in 1 .. Min(space, wr.n) :
            LET bytes == [j \in 1 .. k |-> Byte(s, Len(written[s]) + j)] IN
              /\ pipe_buf' = [pipe_buf EXCEPT ![s] = @ \o bytes]
              /\ written' = [written EXCEPT ![s] = @ \o bytes]
              /\ left' = [left EXCEPT ![s] = @ - k]
              /\ wr' = IF k = wr.n THEN [cur |-> 0, n |-> 0]
                                   ELSE [cur |-> s, n |-> wr.n - k]
  /\ UNCHANGED <<dpc, present, wopen, out, done, active, rd_open, pollfds,
                 poll_index, tgt, dresult, stalled>>
  /\ UNCHANGED but_dvars

\* the writer closes a stream it has nothing more to write to
WriterClose ==
  /\ wr.cur = 0
  /\ \E s \in Streams :
       /\ wopen[s]
       /\ left[s] = 0
       /\ wopen' = [wopen EXCEPT ![s] = FALSE]
  /\ UNCHANGED <<dpc, present, left, wr, pipe_buf, written, out, done, active,
                 rd_open, pollfds, poll_index, tgt, dresult, stalled>>
  /\ UNCHANGED but_dvars

\* drain_pipes is called with any combination of present pipes; the writer
\* holds the write ends and has up to MaxBytes to write to each
DrainInit ==
  /\ WaitIdle
  /\ child = "running"
  /\ PipeIdle
  /\ ForkIdle
  /\ CmdIdle
  /\ SigIdle
  /\ LowerIdle
  /\ DupIdle
  /\ OvIdle
  /\ RaiiIdle
  /\ OutIdle
  /\ TakeIdle
  /\ WireIdle
  /\ dpc = "setup"
  /\ present \in [Streams -> BOOLEAN]
  /\ left \in [Streams -> 0 .. MaxBytes]
  /\ \A s \in Streams : ~present[s] => left[s] = 0
  /\ wr = [cur |-> 0, n |-> 0]
  /\ wopen = present
  /\ rd_open = present
  /\ pipe_buf = [s \in Streams |-> <<>>]
  /\ written = [s \in Streams |-> <<>>]
  /\ out = [s \in Streams |-> <<>>]
  /\ done = [s \in Streams |-> FALSE]
  /\ active = 0
  /\ pollfds = <<>>
  /\ poll_index = 0
  /\ tgt = 0
  /\ dresult = "pending"
  /\ stalled = {}

DrainSteps == DrainSetup \/ DrainPoll \/ DrainScan \/ DrainRead

WriterSteps == WriterBegin \/ WriterPush \/ WriterClose

DrainNext ==
  \/ DrainSetup
  \/ DrainSetupFails
  \/ DrainPoll
  \/ DrainPollFails
  \/ DrainScan
  \/ DrainRead
  \/ DrainReadFails
  \/ WriterBegin
  \/ WriterPush
  \/ WriterClose

DrainSpec == DrainInit /\ [][DrainNext]_vars

\* the drain loop runs whenever it is not blocked in poll, and the writer
\* runs whenever it is not blocked on a full pipe; failing system calls are
\* possible but never forced
DrainFairSpec == DrainSpec /\ WF_vars(DrainSteps) /\ WF_vars(WriterSteps)

\* ------------------------------------------- POSIX backend, fork/exec path
\* the kinds of StdioSpec
StdioKinds == {"inherit", "null", "file", "fd", "piped"}

SpawnSpecs ==
  [stdin : StdioKinds, stdout : StdioKinds,
   stderr : StdioKinds \cup {"dup_stdout"},
   new_process_group : BOOLEAN, process_group : {Nullopt, PidBase},
   cwd : BOOLEAN, argv_empty : BOOLEAN]

\* errno values a failing child step may leave
Errnos == {"EACCES", "ENOENT"}

\* what sysconf(_SC_OPEN_MAX) may answer: an error, the limit of the parent,
\* or a narrower limit observed in the child
SysconfAnswers == {-1, kChildOpenMaxOverride, ParentOpenMax}

\* max_open_fd_limit
max_open_fd_limit(raw) == IF raw < 0 THEN kFallbackMaxFd ELSE raw

\* the descriptor number the kernel hands out next: the lowest one not in use
LowestFree(tbl) ==
  CHOOSE fd \in 0 .. Cardinality(tbl) :
    fd \notin tbl /\ \A g \in 0 .. fd - 1 : g \in tbl

\* the order in which open_for_spec is called, then the error pipe
NextPrep(p) ==
  CASE p = "stdout" -> "stdin"
    [] p = "stdin" -> "stderr"
    [] p = "stderr" -> "error_pipe"

\* the steps of the child between fork and exec, in order
ChildOrder ==
  <<"setpgid", "chdir", "dup2_stdin", "dup2_stdout", "dup2_stderr",
    "close_fds", "execve">>

ChildSteps == {ChildOrder[i] : i \in 1 .. Len(ChildOrder)}

StepAfter(step) ==
  LET i == CHOOSE j \in 1 .. Len(ChildOrder) : ChildOrder[j] = step
  IN ChildOrder[i + 1]

\* whether the child performs a step at all
Applies(step) ==
  CASE step = "setpgid" ->
         fspec.new_process_group \/ fspec.process_group # Nullopt
    [] step = "chdir" -> fspec.cwd
    [] step = "dup2_stdin" -> child_std.stdin # StdFd("stdin")
    [] step = "dup2_stdout" -> child_std.stdout # StdFd("stdout")
    [] step = "dup2_stderr" -> child_std.stderr # StdFd("stderr")
    [] OTHER -> TRUE

\* faulty variant: the parent reports a fixed error instead of the errno read
ReportedError_fixed(child_errno) == "EIO"

\* Error{std::error_code(child_errno, system_category()), "spawn"}
ReportedError(child_errno) == child_errno

\* the descriptors of opened_fds
OpenedSet == {opened_fds[i] : i \in 1 .. Len(opened_fds)}

\* the parent ends that are set
KeptEnds == {parent_ends[name] : name \in StdStreams} \ {Nullopt}

\* faulty variant: spawn goes on with an empty argv
argv_rejected_never(spec) == FALSE

\* if (spec.argv.empty()) return empty_argv
argv_rejected(spec) == spec.argv_empty

\* PosixBackend::spawn is entered: a spec without argv is rejected, any other
\* spec here takes the fork/exec path
ForkBegin ==
  /\ fpc = "unused"
  /\ \E spec \in SpawnSpecs :
       /\ fspec' = spec
       /\ IF argv_rejected(spec)
            THEN /\ fpc' = "returned"
                 /\ fret' = "empty_argv"
            ELSE /\ fpc' = "stdout"
                 /\ UNCHANGED fret
  /\ fd_table' = Baseline
  /\ UNCHANGED <<cloexec, opened_fds, parent_ends, child_std, error_fds,
                 injected, child_open_max, cpc, cfds, child_log, err_pipe,
                 err_wr_open, exit_code, close_bound, fork_fds, failed_step>>
  /\ UNCHANGED but_fvars

\* open_for_spec for stdout, stdin, stderr in that order; a failing open or
\* create_pipe returns its error at once
PrepareStdio ==
  /\ fpc \in StdStreams
  /\ LET kind == fspec[fpc]
         fd == LowestFree(fd_table)
         fd2 == LowestFree(fd_table \cup {fd})
     IN
       CASE kind = "inherit" ->
              /\ child_std' = [child_std EXCEPT ![fpc] = StdFd(fpc)]
              /\ fpc' = NextPrep(fpc)
              /\ UNCHANGED <<fd_table, cloexec, opened_fds, parent_ends, fret>>
         [] kind \in {"null", "file"} ->
              \/ /\ fd_table' = fd_table \cup {fd}
                 /\ cloexec' = cloexec \cup {fd}
                 /\ opened_fds' = Append(opened_fds, fd)
                 /\ child_std' = [child_std EXCEPT ![fpc] = fd]
                 /\ fpc' = NextPrep(fpc)
                 /\ UNCHANGED <<parent_ends, fret>>
              \/ /\ fret' = "open"
                 /\ fpc' = "returned"
                 /\ UNCHANGED <<fd_table, cloexec, opened_fds, parent_ends,
                                child_std>>
         [] kind = "fd" ->
              /\ child_std' = [child_std EXCEPT ![fpc] = UserFd]
              /\ fpc' = NextPrep(fpc)
              /\ UNCHANGED <<fd_table, cloexec, opened_fds, parent_ends, fret>>
         [] kind = "piped" ->
              \/ /\ fd_table' = fd_table \cup {fd, fd2}
                 /\ cloexec' = cloexec \cup {fd, fd2}
                 /\ opened_fds' = opened_fds \o <<fd, fd2>>
                 /\ IF fpc = "stdin"
                      THEN /\ parent_ends' = [parent_ends EXCEPT ![fpc] = fd2]
                           /\ child_std' = [child_std EXCEPT ![fpc] = fd]
                      ELSE /\ parent_ends' = [parent_ends EXCEPT ![fpc] = fd]
                           /\ child_std' = [child_std EXCEPT ![fpc] = fd2]
                 /\ fpc' = NextPrep(fpc)
                 /\ UNCHANGED fret
              \/ /\ fret' = "pipe"
                 /\ fpc' = "returned"
                 /\ UNCHANGED <<fd_table, cloexec, opened_fds, parent_ends,
                                child_std>>
         [] kind = "dup_stdout" ->
              /\ child_std' = [child_std EXCEPT ![fpc] = child_std.stdout]
              /\ fpc' = NextPrep(fpc)
              /\ UNCHANGED <<fd_table, cloexec, opened_fds, parent_ends, fret>>
  /\ UNCHANGED <<fspec, error_fds, injected, child_open_max, cpc, cfds,
                 child_log, err_pipe, err_wr_open, exit_code, close_bound,
                 fork_fds, failed_step>>
  /\ UNCHANGED but_fvars

\* create_pipe for the error pipe
PrepareErrorPipe ==
  /\ fpc = "error_pipe"
  /\ LET fd == LowestFree(fd_table)
         fd2 == LowestFree(fd_table \cup {fd})
     IN
       \/ /\ fd_table' = fd_table \cup {fd, fd2}
          /\ cloexec' = cloexec \cup {fd, fd2}
          /\ opened_fds' = opened_fds \o <<fd, fd2>>
          /\ error_fds' = [r |-> fd, w |-> fd2]
          /\ fpc' = "fork"
          /\ UNCHANGED fret
       \/ /\ fret' = "pipe"
          /\ fpc' = "returned"
          /\ UNCHANGED <<fd_table, cloexec, opened_fds, error_fds>>
  /\ UNCHANGED <<fspec, parent_ends, child_std, injected, child_open_max, cpc,
                 cfds, child_log, err_pipe, err_wr_open, exit_code,
                 close_bound, fork_fds, failed_step>>
  /\ UNCHANGED but_fvars

\* another thread of the process opens a descriptor, without FD_CLOEXEC,
\* after the backend's preparation and before its fork
OtherThreadOpens ==
  /\ fpc = "fork"
  /\ injected = Nullopt
  /\ \E fd \in {LowestFree(fd_table), kInjectedFdLowerBound} :
       /\ injected' = fd
       /\ fd_table' = fd_table \cup {fd}
  /\ UNCHANGED <<fpc, fspec, cloexec, opened_fds, parent_ends, child_std,
                 error_fds, child_open_max, cpc, cfds, child_log, err_pipe,
                 err_wr_open, exit_code, close_bound, fork_fds, failed_step,
                 fret>>
  /\ UNCHANGED but_fvars

\* fork: the child starts with a copy of the descriptor table and the parent
\* closes its error_write_fd; a failed fork closes opened_fds and returns
Fork ==
  /\ fpc = "fork"
  /\ \/ /\ cpc' = ChildOrder[1]
        /\ cfds' = fd_table
        /\ fork_fds' = fd_table
        /\ err_wr_open' = TRUE
        /\ fd_table' = fd_table \ {error_fds.w}
        /\ fpc' = "read"
        /\ UNCHANGED fret
     \/ /\ fd_table' = fd_table \ OpenedSet
        /\ fret' = "fork"
        /\ fpc' = "returned"
        /\ UNCHANGED <<cpc, cfds, fork_fds, err_wr_open>>
  /\ UNCHANGED <<fspec, cloexec, opened_fds, parent_ends, child_std,
                 error_fds, injected, child_open_max, child_log, err_pipe,
                 exit_code, close_bound, failed_step>>
  /\ UNCHANGED but_fvars

\* one step of the child: setpgid, chdir, the three dup2, the close loop,
\* execve. A step that fails writes its errno to the error pipe and the
\* child exits with kExecFailureExitCode. A successful execve closes the
\* FD_CLOEXEC descriptors, the error pipe's write end among them.
ChildStep ==
  /\ cpc \in ChildSteps
  /\ IF ~Applies(cpc)
       THEN /\ cpc' = StepAfter(cpc)
            /\ UNCHANGED <<cfds, child_log, err_pipe, err_wr_open, exit_code,
                           close_bound, child_open_max, failed_step>>
       ELSE
         \/ /\ cpc # "close_fds"
            /\ \E e \in Errnos :
                 /\ err_pipe' = Append(err_pipe, e)
                 /\ failed_step' = [step |-> cpc, errno |-> e]
            /\ child_log' = Append(child_log, cpc)
            /\ exit_code' = kExecFailureExitCode
            /\ cpc' = "zombie"
            /\ cfds' = {}
            /\ err_wr_open' = FALSE
            /\ UNCHANGED <<close_bound, child_open_max>>
         \/ /\ cpc \in {"setpgid", "chdir", "dup2_stdin", "dup2_stdout",
                        "dup2_stderr"}
            /\ child_log' = Append(child_log, cpc)
            /\ cpc' = StepAfter(cpc)
            /\ UNCHANGED <<cfds, err_pipe, err_wr_open, exit_code,
                           close_bound, child_open_max, failed_step>>
         \/ /\ cpc = "close_fds"
            /\ \E raw \in SysconfAnswers :
                 /\ child_open_max' = raw
                 /\ close_bound' = max_open_fd_limit(raw)
                 /\ cfds' = {fd \in cfds :
                               \/ fd <= StdFd("stderr")
                               \/ fd >= max_open_fd_limit(raw)
                               \/ fd = error_fds.w}
            /\ child_log' = Append(child_log, cpc)
            /\ cpc' = StepAfter(cpc)
            /\ UNCHANGED <<err_pipe, err_wr_open, exit_code, failed_step>>
         \/ /\ cpc = "execve"
            /\ child_log' = Append(child_log, cpc)
            /\ cfds' = {fd \in cfds : fd <= StdFd("stderr") \/ fd \notin cloexec}
            /\ err_wr_open' = FALSE
            /\ cpc' = "running"
            /\ UNCHANGED <<err_pipe, exit_code, close_bound, child_open_max,
                           failed_step>>
  /\ UNCHANGED <<fpc, fspec, fd_table, cloexec, opened_fds, parent_ends,
                 child_std, error_fds, injected, fork_fds, fret>>
  /\ UNCHANGED but_fvars

\* the parent's read of the error pipe returns: with an errno the child wrote
\* (the child is reaped, everything opened is closed, the errno is returned)
\* or with 0 at end of file (the parent ends are kept, the rest is closed,
\* the Spawned record is returned)
ParentRead ==
  /\ fpc = "read"
  /\ \/ /\ err_pipe # <<>>
        /\ cpc = "zombie"
        /\ cpc' = "reaped"
        /\ err_pipe' = Tail(err_pipe)
        /\ fd_table' = fd_table \ OpenedSet
        /\ fret' = ReportedError(Head(err_pipe))
     \/ /\ err_pipe = <<>>
        /\ ~err_wr_open
        /\ fd_table' = fd_table \ (OpenedSet \ KeptEnds)
        /\ fret' = "ok"
        /\ UNCHANGED <<cpc, err_pipe>>
  /\ fpc' = "returned"
  /\ UNCHANGED <<fspec, cloexec, opened_fds, parent_ends, child_std,
                 error_fds, injected, child_open_max, cfds, child_log,
                 err_wr_open, exit_code, close_bound, fork_fds, failed_step>>
  /\ UNCHANGED but_fvars

\* the parent's read fails with an errno other than EINTR: everything opened
\* is closed and the read error is returned
ParentReadFails ==
  /\ fpc = "read"
  /\ fd_table' = fd_table \ OpenedSet
  /\ fret' = "read"
  /\ fpc' = "returned"
  /\ UNCHANGED <<fspec, cloexec, opened_fds, parent_ends, child_std,
                 error_fds, injected, child_open_max, cpc, cfds, child_log,
                 err_pipe, err_wr_open, exit_code, close_bound, fork_fds,
                 failed_step>>
  /\ UNCHANGED but_fvars

ForkInit ==
  /\ WaitIdle
  /\ child = "running"
  /\ PipeIdle
  /\ DrainIdle
  /\ ForkIdle
  /\ CmdIdle
  /\ SigIdle
  /\ LowerIdle
  /\ DupIdle
  /\ OvIdle
  /\ RaiiIdle
  /\ OutIdle
  /\ TakeIdle
  /\ WireIdle

ForkNext ==
  \/ ForkBegin
  \/ PrepareStdio
  \/ PrepareErrorPipe
  \/ OtherThreadOpens
  \/ Fork
  \/ ChildStep
  \/ ParentRead
  \/ ParentReadFails

ForkSpec == ForkInit /\ [][ForkNext]_vars

\* ------------------------------ Command::status / output, Child, PipelineChild
\* what a Command may say about one of its streams
StdioOptions == {"unset", "inherit", "null", "piped"}

CmdConfigs == [stdin : StdioOptions, stdout : StdioOptions, stderr : StdioOptions]

\* the stage commands of a spawned pipeline: only piped streams yield parent
\* ends, so the other choices are not told apart here
StageConfigs ==
  [stdin : {"unset", "piped"}, stdout : {"unset", "piped"},
   stderr : {"unset", "piped"}]

\* resolve_stdio: an unset stream is piped in output mode, else inherited
ResolveKind(opt, piped_default) ==
  IF opt = "unset"
    THEN IF piped_default THEN "piped" ELSE "inherit"
    ELSE opt

\* lower_pipeline and lower_command for stage i (1 is the head): the mode of
\* the call applies to the last stage only, a later stage reads the previous
\* stage's pipe and an earlier stage writes into the next stage's
LoweredKinds(cmds, i, output_mode) ==
  LET last == i = Len(cmds) IN
    [stdin |-> IF i > 1 THEN "fd" ELSE ResolveKind(cmds[i].stdin, FALSE),
     stdout |-> IF ~last THEN "fd"
                ELSE ResolveKind(cmds[i].stdout, output_mode),
     stderr |-> ResolveKind(cmds[i].stderr, last /\ output_mode)]

\* the Spawned record of a successful backend spawn: one new descriptor, the
\* parent end, for every piped stream and none for the others
SpawnedEnds(kinds, tbl) ==
  LET so == IF kinds.stdout = "piped" THEN LowestFree(tbl) ELSE Nullopt
      t1 == tbl \cup ({so} \ {Nullopt})
      si == IF kinds.stdin = "piped" THEN LowestFree(t1) ELSE Nullopt
      t2 == t1 \cup ({si} \ {Nullopt})
      se == IF kinds.stderr = "piped" THEN LowestFree(t2) ELSE Nullopt
  IN [stdin |-> si, stdout |-> so, stderr |-> se]

EndsOf(e) == {e[name] : name \in StdStreams} \ {Nullopt}

\* the spawn loop of a pipeline: the Spawned records of stages i .. n
RECURSIVE SpawnAll(_, _, _, _)
SpawnAll(cmds, i, output_mode, tbl) ==
  IF i > Len(cmds) THEN <<>>
  ELSE LET e == SpawnedEnds(LoweredKinds(cmds, i, output_mode), tbl)
       IN <<e>> \o SpawnAll(cmds, i + 1, output_mode, tbl \cup EndsOf(e))

AllEnds(ends) == UNION {EndsOf(ends[i]) : i \in 1 .. Len(ends)}

\* faulty variant: close forgets the descriptor without closing it
close_fd_leak(tbl, fd) == tbl

\* PipeReader::close / PipeWriter::close: if (fd_ >= 0) ::close(fd_)
close_fd(tbl, fd) == IF fd >= 0 THEN tbl \ {fd} ELSE tbl

\* the destructors of three optional pipes
CloseAll(tbl, p) == close_fd(close_fd(close_fd(tbl, p.stdin), p.stdout), p.stderr)

\* what Child::Impl and spawn_pipeline wrap into pipe objects
ChildWraps(ends) == ends[1]

PipelineWraps(ends) ==
  [stdin |-> ends[1].stdin,
   stdout |-> Last(ends).stdout,
   stderr |-> Last(ends).stderr]

\* a call that is over: its locals are gone
CallReturns(r) ==
  /\ hret' = r
  /\ hpc' = "idle"
  /\ hop' = "none"
  /\ hcmds' = <<>>
  /\ stage_ends' = <<>>
  /\ impl_pipes' = NoEnds
  /\ locals' = NoEnds
  /\ ncalls' = ncalls + 1
  /\ all_ok' = (all_ok /\ r = "ok")

\* Command::status / Command::output up to the Child: lower_command, backend
\* spawn, from_spawned; a lowering or spawn error is returned at once
CommandRun ==
  /\ hpc = "idle"
  /\ ncalls < MaxCalls
  /\ \E op \in {"status", "output"}, cmd \in CmdConfigs,
        r \in {"ok", "empty_argv", "invalid_stdio", "spawn_failed"} :
       IF r # "ok"
         THEN /\ CallReturns(r)
              /\ UNCHANGED <<open_fds, piped_calls>>
         ELSE LET ends == SpawnAll(<<cmd>>, 1, op = "output", open_fds) IN
              /\ hop' = op
              /\ hcmds' = <<cmd>>
              /\ stage_ends' = ends
              /\ open_fds' = open_fds \cup AllEnds(ends)
              /\ impl_pipes' = ChildWraps(ends)
              /\ hpc' = "spawned"
              /\ hret' = "pending"
              /\ UNCHANGED <<locals, ncalls, all_ok, piped_calls>>
  /\ UNCHANGED but_hvars

\* take_stdin and, if there is a pipe, close it
CloseStdin ==
  /\ hpc = "spawned"
  /\ open_fds' = close_fd(open_fds, impl_pipes.stdin)
  /\ impl_pipes' = [impl_pipes EXCEPT !.stdin = Nullopt]
  /\ hpc' = "stdin_done"
  /\ UNCHANGED <<hop, hcmds, stage_ends, locals, ncalls, all_ok, piped_calls,
                 hret>>
  /\ UNCHANGED but_hvars

\* take_stdout and take_stderr; status() skips the drain with neither
TakeOutputs ==
  /\ hpc = "stdin_done"
  /\ locals' = [locals EXCEPT !.stdout = impl_pipes.stdout,
                              !.stderr = impl_pipes.stderr]
  /\ impl_pipes' = NoEnds
  /\ hpc' = IF /\ hop = "status"
               /\ impl_pipes.stdout = Nullopt
               /\ impl_pipes.stderr = Nullopt
              THEN "drained" ELSE "taken"
  /\ UNCHANGED <<hop, hcmds, open_fds, stage_ends, ncalls, all_ok,
                 piped_calls, hret>>
  /\ UNCHANGED but_hvars

\* drain_pipes on the taken pipes: it closes each pipe at end of file; when
\* it fails its error is returned and the locals are destroyed
DrainTaken ==
  /\ hpc = "taken"
  /\ \/ /\ open_fds' = CloseAll(open_fds, locals)
        /\ locals' = NoEnds
        /\ hpc' = "drained"
        /\ UNCHANGED <<hop, hcmds, stage_ends, impl_pipes, ncalls, all_ok,
                       hret>>
     \/ /\ open_fds' = CloseAll(CloseAll(open_fds, locals), impl_pipes)
        /\ CallReturns("drain_failed")
  /\ UNCHANGED piped_calls
  /\ UNCHANGED but_hvars

\* child.wait() and the return: the Child and the local pipes are destroyed
WaitAndReturn ==
  /\ hpc = "drained"
  /\ \E r \in {"ok", "wait_failed"} :
       /\ CallReturns(r)
       /\ piped_calls' = IF r = "ok" /\ Cardinality(AllEnds(stage_ends)) = 3
                           THEN piped_calls + 1 ELSE piped_calls
  /\ open_fds' = CloseAll(CloseAll(open_fds, locals), impl_pipes)
  /\ UNCHANGED but_hvars

\* Command::spawn or Pipeline::spawn hands a Child / PipelineChild to the
\* caller; a failed spawn returns its error
HandleSpawn ==
  /\ hpc = "idle"
  /\ ncalls < MaxCalls
  /\ \/ \E r \in {"empty_argv", "spawn_failed"} :
          /\ CallReturns(r)
          /\ UNCHANGED open_fds
     \/ \E n \in 1 .. MaxStages :
          \E cmds \in [1 .. n -> StageConfigs], op \in {"spawn", "pipeline_spawn"} :
            LET ends == SpawnAll(cmds, 1, FALSE, open_fds) IN
            /\ op = "spawn" => n = 1
            /\ hop' = op
            /\ hcmds' = cmds
            /\ stage_ends' = ends
            /\ open_fds' = open_fds \cup AllEnds(ends)
            /\ impl_pipes' = IF op = "spawn" THEN ChildWraps(ends)
                                             ELSE PipelineWraps(ends)
            /\ hpc' = "held"
            /\ hret' = "ok"
            /\ UNCHANGED <<locals, ncalls, all_ok>>
  /\ UNCHANGED piped_calls
  /\ UNCHANGED but_hvars

\* the caller takes one of the handle's pipes and keeps it
UserTake ==
  /\ hpc = "held"
  /\ \E name \in StdStreams :
       /\ impl_pipes[name] # Nullopt
       /\ locals' = [locals EXCEPT ![name] = impl_pipes[name]]
       /\ impl_pipes' = [impl_pipes EXCEPT ![name] = Nullopt]
  /\ UNCHANGED <<hpc, hop, hcmds, open_fds, stage_ends, ncalls, all_ok,
                 piped_calls, hret>>
  /\ UNCHANGED but_hvars

\* the caller drops the handle: ~Child / ~PipelineChild destroy Impl and with
\* it the pipe objects it still holds
DropHandle ==
  /\ hpc = "held"
  /\ open_fds' = CloseAll(open_fds, impl_pipes)
  /\ impl_pipes' = NoEnds
  /\ hpc' = "dropped"
  /\ UNCHANGED <<hop, hcmds, stage_ends, locals, ncalls, all_ok, piped_calls,
                 hret>>
  /\ UNCHANGED but_hvars

CmdInit ==
  /\ WaitIdle
  /\ child = "running"
  /\ PipeIdle
  /\ DrainIdle
  /\ ForkIdle
  /\ CmdIdle
  /\ SigIdle
  /\ LowerIdle
  /\ DupIdle
  /\ OvIdle
  /\ RaiiIdle
  /\ OutIdle
  /\ TakeIdle
  /\ WireIdle

CmdNext ==
  \/ CommandRun
  \/ CloseStdin
  \/ TakeOutputs
  \/ DrainTaken
  \/ WaitAndReturn
  \/ HandleSpawn
  \/ UserTake
  \/ DropHandle

CmdSpec == CmdInit /\ [][CmdNext]_vars


\* --------------------------------------- backend terminate / kill / signal
\* the group part of the specs the backend is handed: a command on its own,
\* with or without its own group, or a stage sent into a leader's group
GroupSpecs ==
  [stage : {0}, new_process_group : BOOLEAN,
   process_group : {Nullopt, PidBase + 1}]

Signals == {SIGUSR1, SIGKILL, SIGTERM}

\* faulty variant: the signal always goes to the single pid
Target_pid(sp) == sp.pid

\* send_signal: the group, by the negated pgid, when the record has
\* new_process_group and a pgid; else the pid
Target(sp) ==
  IF sp.new_process_group /\ sp.pgid # Nullopt THEN 0 - sp.pgid ELSE sp.pid

\* send_signal: ::kill(target, signo), whose failure is returned
send_signal(signo, via) ==
  /\ sig_spawned # NoSpawned
  /\ Len(kill_calls) < MaxSignals
  /\ kill_calls' = Append(kill_calls, [target |-> Target(sig_spawned),
                                       signo |-> signo, via |-> via])
  /\ \E r \in {"ok", "kill"} : sig_ret' = r
  /\ UNCHANGED <<sig_spec, sig_spawned>>
  /\ UNCHANGED but_svars

\* a successful PosixBackend::spawn: the Spawned record of the new child
BackendSpawn ==
  /\ sig_spawned = NoSpawned
  /\ \E spec \in GroupSpecs, pid \in {PidBase + 1, PidBase + 2} :
       /\ spec.process_group # pid
       /\ sig_spec' = spec
       /\ sig_spawned' = SpawnedFor(spec, pid)
  /\ UNCHANGED <<kill_calls, sig_ret>>
  /\ UNCHANGED but_svars

BackendTerminate == send_signal(SIGTERM, "terminate")

BackendKill == send_signal(SIGKILL, "kill")

BackendSignal == \E signo \in Signals : send_signal(signo, "signal")

SigInit ==
  /\ WaitIdle
  /\ child = "running"
  /\ PipeIdle
  /\ DrainIdle
  /\ ForkIdle
  /\ CmdIdle
  /\ SigIdle
  /\ LowerIdle
  /\ DupIdle
  /\ OvIdle
  /\ RaiiIdle
  /\ OutIdle
  /\ TakeIdle
  /\ WireIdle

SigNext ==
  \/ BackendSpawn
  \/ BackendTerminate
  \/ BackendKill
  \/ BackendSignal

SigSpec == SigInit /\ [][SigNext]_vars


\* ------------------------------------------- lower_command, lower_pipeline
OpenModes == {"read", "write_truncate", "write_append", "read_write"}

\* std::optional<Stdio>: std::nullopt, or one of the alternatives of Stdio;
\* mode "none" is a FileSpec without a mode
Unset == [kind |-> "unset", fd |-> 0, mode |-> "none"]

Plain(kind) == [kind |-> kind, fd |-> 0, mode |-> "none"]

FdOf(n) == [kind |-> "fd", fd |-> n, mode |-> "none"]

FileOf(m) == [kind |-> "file", fd |-> 0, mode |-> m]

StdioValues ==
  {Unset, Plain("inherit"), Plain("null"), Plain("piped")}
    \cup {FdOf(n) : n \in {0 - 1, UserFd}}
    \cup {FileOf(m) : m \in OpenModes \cup {"none"}}

\* the selections a StdioOverride is drawn from
OverrideValues == {Unset, Plain("piped"), FdOf(0 - 1)}

\* StdioSpec{}
DefaultSpec == [kind |-> "inherit", fd |-> 0 - 1, mode |-> "read"]

default_open_mode(target) ==
  IF target = "stdin" THEN "read" ELSE "write_truncate"

mode_is_readable(mode) == mode \in {"read", "read_write"}

\* faulty variant: every mode counts as writable
mode_is_writable_any(mode) == TRUE

mode_is_writable(mode) ==
  mode \in {"write_truncate", "write_append", "read_write"}

SpecOk(spec) == [ok |-> TRUE, code |-> "ok", spec |-> spec]

SpecErr(code) == [ok |-> FALSE, code |-> code, spec |-> DefaultSpec]

\* faulty variant: an unset stream is inherited whatever the mode
resolve_unset_inherit(piped_default) == [DefaultSpec EXCEPT !.kind = "inherit"]

\* resolve_stdio, no value: piped by default in output mode, else inherit
resolve_unset(piped_default) ==
  [DefaultSpec EXCEPT !.kind = IF piped_default THEN "piped" ELSE "inherit"]

resolve_stdio(value, piped_default, target) ==
  CASE value = Unset -> SpecOk(resolve_unset(piped_default))
    [] value.kind \in {"inherit", "null", "piped"} ->
         SpecOk([DefaultSpec EXCEPT !.kind = value.kind])
    [] value.kind = "fd" ->
         IF value.fd < 0
           THEN SpecErr("invalid_stdio")
           ELSE SpecOk([DefaultSpec EXCEPT !.kind = "fd", !.fd = value.fd])
    [] value.kind = "file" ->
         LET mode == IF value.mode = "none" THEN default_open_mode(target)
                                            ELSE value.mode
             good == IF target = "stdin" THEN mode_is_readable(mode)
                                         ELSE mode_is_writable(mode)
         IN IF good
              THEN SpecOk([DefaultSpec EXCEPT !.kind = "file", !.mode = mode])
              ELSE SpecErr("invalid_stdio")

\* ---- strings: sequences of character codes
EqualsSign == 61

\* names of environment variables: "A", "A1", "B"
KeyNames == {<<65>>, <<65, 49>>, <<66>>}

\* values: "" and "x="
EnvValues == {<<>>, <<120, EqualsSign>>}

\* no string: a key that the process environment or env_delta has no entry for
Absent == <<0>>

\* std::nullopt in env_delta: env_remove(key)
Removed == <<0, 0>>

Entry(key, value) == key \o <<EqualsSign>> \o value

\* std::string::find('='): the first position of '=', 0 for npos
FindEquals(entry) ==
  IF \E i \in 1 .. Len(entry) : entry[i] = EqualsSign
    THEN CHOOSE i \in 1 .. Len(entry) :
           /\ entry[i] = EqualsSign
           /\ \A j \in 1 .. i - 1 : entry[j] # EqualsSign
    ELSE 0

\* std::less<> on std::string
LexLess(a, b) ==
  \E i \in 1 .. Len(a) + 1 :
    /\ i - 1 <= Len(b)
    /\ \A j \in 1 .. i - 1 : a[j] = b[j]
    /\ IF i > Len(a) THEN Len(b) >= i
                     ELSE i <= Len(b) /\ a[i] < b[i]

\* the keys of a std::map in iteration order
RECURSIVE InOrder(_)
InOrder(keys) ==
  IF keys = {} THEN <<>>
  ELSE LET least == CHOOSE k \in keys : \A o \in keys \ {k} : LexLess(k, o)
       IN <<least>> \o InOrder(keys \ {least})

\* faulty variant: env_remove leaves an inherited entry in place
MergeDelta_keep(env_map, delta) ==
  LET set == {k \in DOMAIN delta : delta[k] \notin {Absent, Removed}}
  IN [k \in DOMAIN env_map \cup set |->
        IF k \in set THEN delta[k] ELSE env_map[k]]

\* the loop over env_delta: a value is stored, std::nullopt erases the key
MergeDelta(env_map, delta) ==
  LET set == {k \in DOMAIN delta : delta[k] \notin {Absent, Removed}}
      gone == {k \in DOMAIN delta : delta[k] = Removed}
  IN [k \in (DOMAIN env_map \ gone) \cup set |->
        IF k \in set THEN delta[k] ELSE env_map[k]]

\* the loop over environ: entries without '=' are skipped, the text before
\* the first '=' is the key and the rest the value
RECURSIVE ReadEnviron(_, _)
ReadEnviron(environ, env_map) ==
  IF environ = <<>> THEN env_map
  ELSE LET entry == Head(environ)
           pos == FindEquals(entry)
           key == SubSeq(entry, 1, pos - 1)
           value == SubSeq(entry, pos + 1, Len(entry))
       IN ReadEnviron(Tail(environ),
            IF pos = 0 THEN env_map
            ELSE [k \in DOMAIN env_map \cup {key} |->
                    IF k = key THEN value ELSE env_map[k]])

EmptyMap == [k \in {} |-> <<>>]

\* the envp of lower_command
lower_env(inherit_env, environ, delta) ==
  LET env_map == MergeDelta(IF inherit_env THEN ReadEnviron(environ, EmptyMap)
                                            ELSE EmptyMap, delta)
      order == InOrder(DOMAIN env_map)
  IN [i \in 1 .. Len(order) |-> Entry(order[i], env_map[order[i]])]

\* the process environment as environ lists it: one entry per variable, in
\* no particular order (here from the last key to the first), then possibly
\* an entry without '='
RECURSIVE Reversed(_)
Reversed(seq) ==
  IF seq = <<>> THEN <<>> ELSE Append(Reversed(Tail(seq)), Head(seq))

EnvironOf(penv, junk) ==
  LET order == Reversed(InOrder({k \in DOMAIN penv : penv[k] # Absent}))
  IN [i \in 1 .. Len(order) |-> Entry(order[i], penv[order[i]])]
       \o (IF junk THEN <<<<90>>>> ELSE <<>>)

\* the stream selection lower_command resolves: the override when set
Selected(cmd, ov, name) == IF ov[name] # Unset THEN ov[name] ELSE cmd[name]

LowerErr(code, resolved) ==
  [ok |-> FALSE, code |-> code, resolved |-> resolved, envp |-> <<>>,
   stdin_spec |-> DefaultSpec, stdout_spec |-> DefaultSpec,
   stderr_spec |-> DefaultSpec]

\* lower_command: the result, with the streams resolved before it returned
lower_command(cmd, mode, ov, environ) ==
  LET output_mode == mode = "output"
      si == resolve_stdio(Selected(cmd, ov, "stdin"), FALSE, "stdin")
      so == resolve_stdio(Selected(cmd, ov, "stdout"), output_mode, "stdout")
      se == resolve_stdio(Selected(cmd, ov, "stderr"), output_mode, "stderr")
  IN
    IF cmd.argv_empty THEN LowerErr("empty_argv", <<>>)
    ELSE IF ~si.ok THEN LowerErr(si.code, <<si>>)
    ELSE IF ~so.ok THEN LowerErr(so.code, <<si, so>>)
    ELSE IF ~se.ok THEN LowerErr(se.code, <<si, so, se>>)
    ELSE [ok |-> TRUE, code |-> "ok", resolved |-> <<si, so, se>>,
          envp |-> lower_env(cmd.inherit_env, environ, cmd.env_delta),
          stdin_spec |-> si.spec,
          stdout_spec |-> so.spec,
          stderr_spec |-> IF cmd.merge_stderr_into_stdout
                            THEN [DefaultSpec EXCEPT !.kind = "dup_stdout"]
                            ELSE se.spec]

NoDelta == [k \in KeyNames |-> Absent]

\* commands that differ in their stdio selections
StdioCommands ==
  [argv_empty : BOOLEAN, merge_stderr_into_stdout : BOOLEAN,
   inherit_env : {TRUE}, env_delta : {NoDelta},
   stdin : StdioValues, stdout : StdioValues, stderr : StdioValues]

\* commands that differ in their environment settings
EnvCommands ==
  [argv_empty : BOOLEAN, merge_stderr_into_stdout : {FALSE},
   inherit_env : BOOLEAN,
   env_delta : [KeyNames -> EnvValues \cup {Absent, Removed}],
   stdin : {Unset}, stdout : {Unset}, stderr : {Unset}]

NoOverride == [name \in StdStreams |-> Unset]

\* lower_command is called on a command, a mode and overrides, in a process
\* whose environment is penv
LowerCommand ==
  /\ lw_pc = "idle"
  /\ \E mode \in {"spawn", "output"} :
       \/ \E cmd \in StdioCommands, ov \in [StdStreams -> OverrideValues] :
            /\ lw_in' = [cmd |-> cmd, mode |-> mode, ov |-> ov,
                         penv |-> NoDelta, junk |-> FALSE]
            /\ lw_out' = lower_command(cmd, mode, ov, <<>>)
       \/ \E cmd \in EnvCommands, junk \in BOOLEAN,
             penv \in [KeyNames -> EnvValues \cup {Absent}] :
            /\ lw_in' = [cmd |-> cmd, mode |-> mode, ov |-> NoOverride,
                         penv |-> penv, junk |-> junk]
            /\ lw_out' = lower_command(cmd, mode, NoOverride,
                                       EnvironOf(penv, junk))
  /\ lw_pc' = "lowered"
  /\ UNCHANGED but_lvars

\* a Pipeline as lower_pipeline sees it: the number of stage commands, the
\* pipeline-level stdio options and the two flags
Pipelines ==
  [n : 0 .. MaxStages, stdin : OverrideValues, stdout : OverrideValues,
   stderr : OverrideValues, pipefail : BOOLEAN, new_process_group : BOOLEAN]

\* faulty variant: every stage gets the caller's mode
stage_mode_all(idx, stage_count, mode) == mode

\* stage.mode = (index + 1 == stage_count) ? mode : SpawnMode::spawn
stage_mode(idx, stage_count, mode) ==
  IF idx + 1 = stage_count THEN mode ELSE "spawn"

\* the PipelineStageSpec of the stage at index idx (0 is the head)
PipelineStage(pl, mode, idx) ==
  [command |-> idx,
   mode |-> stage_mode(idx, pl.n, mode),
   stdin_from_prev |-> idx > 0,
   stdout_to_next |-> idx + 1 < pl.n,
   overrides |->
     [stdin |-> IF idx = 0 THEN pl.stdin ELSE Unset,
      stdout |-> IF idx + 1 = pl.n THEN pl.stdout ELSE Unset,
      stderr |-> IF idx + 1 = pl.n THEN pl.stderr ELSE Unset]]

lower_pipeline(pl, mode) ==
  IF pl.n = 0
    THEN [ok |-> FALSE, code |-> "invalid_pipeline", stages |-> <<>>,
          pipefail |-> FALSE, new_process_group |-> FALSE]
    ELSE [ok |-> TRUE, code |-> "ok",
          stages |-> [i \in 1 .. pl.n |-> PipelineStage(pl, mode, i - 1)],
          pipefail |-> pl.pipefail,
          new_process_group |-> pl.new_process_group]

\* lower_pipeline is called on a pipeline and a mode
LowerPipeline ==
  /\ lw_pc = "idle"
  /\ \E pl \in Pipelines, mode \in {"spawn", "output"} :
       /\ lw_in' = [pipeline |-> pl, mode |-> mode]
       /\ lw_out' = lower_pipeline(pl, mode)
  /\ lw_pc' = "lowered_pipeline"
  /\ UNCHANGED but_lvars

LowerInit ==
  /\ WaitIdle
  /\ child = "running"
  /\ PipeIdle
  /\ DrainIdle
  /\ ForkIdle
  /\ CmdIdle
  /\ SigIdle
  /\ LowerIdle
  /\ DupIdle
  /\ OvIdle
  /\ RaiiIdle
  /\ OutIdle
  /\ TakeIdle
  /\ WireIdle

LowerNext ==
  \/ LowerCommand
  \/ LowerPipeline

LowerSpec == LowerInit /\ [][LowerNext]_vars


\* ----------------------------------- spawn_pipeline: the inter-stage pipes
\* the stdin and stdout selections of a stage's own command
OwnSelections ==
  [stdin : {Unset, Plain("piped")}, stdout : {Plain("piped"), FdOf(0 - 1)}]

\* the Command of a stage, as lower_command sees it
StageCommand(own) ==
  [argv_empty |-> FALSE, merge_stderr_into_stdout |-> FALSE,
   inherit_env |-> TRUE, env_delta |-> NoDelta,
   stdin |-> own.stdin, stdout |-> own.stdout, stderr |-> Unset]

\* the open file a descriptor of the parent refers to: an end of pipe k
PipeFile(k, end) == [pipe |-> k, end |-> end]

\* create_pipe, count times: each pipe takes the two lowest free descriptors,
\* first the read end and second the write end
RECURSIVE MakePipes(_, _)
MakePipes(count, tbl) ==
  IF count = 0 THEN <<>>
  ELSE LET r == LowestFree(tbl)
           w == LowestFree(tbl \cup {r})
       IN <<[first |-> r, second |-> w]>>
            \o MakePipes(count - 1, tbl \cup {r, w})

PipeFds(ps) == UNION {{ps[k].first, ps[k].second} : k \in 1 .. Len(ps)}

\* the open files behind the descriptors of the pipes
FilesOf(ps) ==
  [fd \in PipeFds(ps) |->
     LET k == CHOOSE k \in 1 .. Len(ps) : fd \in {ps[k].first, ps[k].second}
     IN PipeFile(k, IF fd = ps[k].first THEN "r" ELSE "w")]

\* faulty variant: the destructor forgets the descriptor without closing it
reset_forget(tbl, fd) == tbl

\* unique_fd::reset(-1), as the destructor calls it: if (fd_ >= 0) ::close(fd_)
reset(tbl, fd) == IF fd >= 0 THEN tbl \ {fd} ELSE tbl

\* the vector of pipes is destroyed
RECURSIVE DestroyPipes(_, _)
DestroyPipes(tbl, ps) ==
  IF ps = <<>> THEN tbl
  ELSE DestroyPipes(reset(reset(tbl, Head(ps).first), Head(ps).second), Tail(ps))

\* faulty variant: the next stage is handed the write end
stdin_end_second(p) == p.second

\* pipes[index - 1].first.get()
stdin_end(p) == p.first

\* pipes[index].second.get()
stdout_end(p) == p.second

\* the overrides of the stage at idx (0 is the head) of stage_count stages
StageOverride(idx, stage_count) ==
  [stdin |-> IF idx > 0 THEN FdOf(stdin_end(wire_pipes[idx])) ELSE Unset,
   stdout |-> IF idx + 1 < stage_count
                THEN FdOf(stdout_end(wire_pipes[idx + 1])) ELSE Unset,
   stderr |-> Unset]

\* the open file the child gets for a stream: for fd(n) the file descriptor n
\* refers to in the parent when the stage is spawned
FileFor(spec) ==
  IF spec.kind = "fd" /\ spec.fd \in wire_open
    THEN file_of[spec.fd]
    ELSE PipeFile(0, spec.kind)

\* spawn_pipeline returns: its locals, the pipes among them, are destroyed
WireReturn(r) ==
  /\ wire_ret' = r
  /\ wire_pc' = "returned"
  /\ wire_open' = DestroyPipes(wire_open, wire_pipes)
  /\ wire_pipes' = <<>>

\* Pipeline::spawn on a pipeline of n stages; lower_pipeline succeeds
WireBegin ==
  /\ wire_pc = "idle"
  /\ \E n \in 1 .. MaxStages :
       \E cmds \in [1 .. n -> OwnSelections] : wire_cmds' = cmds
  /\ wire_pc' = "pipes"
  /\ UNCHANGED <<wire_open, file_of, wire_pipes, wire_made, wire_index,
                 wire_specs, child_files, stage_state, pipe_bytes, sent, got,
                 wire_ret>>
  /\ UNCHANGED but_qvars

\* the loop creating stage_count - 1 pipes; when a create_pipe fails the
\* error is returned and the pipes made so far are destroyed
WirePipes ==
  /\ wire_pc = "pipes"
  /\ \/ LET ps == MakePipes(Len(wire_cmds) - 1, Baseline) IN
        /\ wire_pipes' = ps
        /\ wire_made' = ps
        /\ wire_open' = PipeFds(ps)
        /\ file_of' = FilesOf(ps)
        /\ wire_pc' = "stage"
        /\ UNCHANGED wire_ret
     \/ /\ Len(wire_cmds) > 1
        /\ \E made \in 0 .. Len(wire_cmds) - 2 :
             LET ps == MakePipes(made, Baseline) IN
             /\ wire_made' = ps
             /\ file_of' = FilesOf(ps)
             /\ wire_open' = DestroyPipes(PipeFds(ps), ps)
        /\ wire_pipes' = <<>>
        /\ wire_ret' = "pipe_failed"
        /\ wire_pc' = "returned"
  /\ UNCHANGED <<wire_cmds, wire_index, wire_specs, child_files, stage_state,
                 pipe_bytes, sent, got>>
  /\ UNCHANGED but_qvars

\* one iteration of the spawn loop: the overrides, lower_command, the
\* backend's spawn; an error of either is returned; after the last stage
\* spawn_pipeline returns the handle
WireStage ==
  /\ wire_pc = "stage"
  /\ LET n == Len(wire_cmds)
         low == lower_command(StageCommand(wire_cmds[wire_index + 1]), "spawn",
                              StageOverride(wire_index, n), <<>>)
     IN
       IF ~low.ok
         THEN /\ WireReturn(low.code)
              /\ UNCHANGED <<wire_index, wire_specs, child_files, stage_state>>
         ELSE \/ /\ WireReturn("spawn_failed")
                 /\ UNCHANGED <<wire_index, wire_specs, child_files,
                                stage_state>>
              \/ /\ wire_specs' = Append(wire_specs,
                                         [stdin |-> low.stdin_spec,
                                          stdout |-> low.stdout_spec])
                 /\ child_files' = Append(child_files,
                                          [stdin |-> FileFor(low.stdin_spec),
                                           stdout |-> FileFor(low.stdout_spec)])
                 /\ stage_state' = Append(stage_state, "running")
                 /\ wire_index' = wire_index + 1
                 /\ IF wire_index + 1 = n
                      THEN WireReturn("ok")
                      ELSE UNCHANGED <<wire_ret, wire_pc, wire_open, wire_pipes>>
  /\ UNCHANGED <<wire_cmds, file_of, wire_made, pipe_bytes, sent, got>>
  /\ UNCHANGED but_qvars

\* a running stage writes its next byte to its stdout; the byte enters the
\* pipe when stdout is the write end of one
StageWrite ==
  /\ \E j \in 1 .. Len(stage_state) :
       LET f == child_files[j].stdout IN
       /\ stage_state[j] = "running"
       /\ Len(sent[j]) < MaxSent
       /\ f.pipe # 0
       /\ sent' = [sent EXCEPT ![j] = Append(@, Byte(j, Len(@) + 1))]
       /\ pipe_bytes' =
            IF f.end = "w"
              THEN [pipe_bytes EXCEPT ![f.pipe] = Append(@, Byte(j, Len(sent[j]) + 1))]
              ELSE pipe_bytes
  /\ UNCHANGED <<wire_pc, wire_cmds, wire_open, file_of, wire_pipes, wire_made,
                 wire_index, wire_specs, child_files, stage_state, got,
                 wire_ret>>
  /\ UNCHANGED but_qvars

\* a running stage reads the next byte of the pipe its stdin is the read
\* end of
StageRead ==
  /\ \E j \in 1 .. Len(stage_state) :
       LET f == child_files[j].stdin IN
       /\ stage_state[j] = "running"
       /\ f.pipe # 0
       /\ f.end = "r"
       /\ pipe_bytes[f.pipe] # <<>>
       /\ got' = [got EXCEPT ![j] = Append(@, Head(pipe_bytes[f.pipe]))]
       /\ pipe_bytes' = [pipe_bytes EXCEPT ![f.pipe] = Tail(@)]
  /\ UNCHANGED <<wire_pc, wire_cmds, wire_open, file_of, wire_pipes, wire_made,
                 wire_index, wire_specs, child_files, stage_state, sent,
                 wire_ret>>
  /\ UNCHANGED but_qvars

\* a running stage exits: its descriptors are closed
StageExit ==
  /\ \E j \in 1 .. Len(stage_state) :
       /\ stage_state[j] = "running"
       /\ stage_state' = [stage_state EXCEPT ![j] = "exited"]
  /\ UNCHANGED <<wire_pc, wire_cmds, wire_open, file_of, wire_pipes, wire_made,
                 wire_index, wire_specs, child_files, pipe_bytes, sent, got,
                 wire_ret>>
  /\ UNCHANGED but_qvars

WireInit ==
  /\ WaitIdle
  /\ child = "running"
  /\ PipeIdle
  /\ DrainIdle
  /\ ForkIdle
  /\ CmdIdle
  /\ SigIdle
  /\ LowerIdle
  /\ DupIdle
  /\ OvIdle
  /\ RaiiIdle
  /\ OutIdle
  /\ TakeIdle
  /\ WireIdle

WireNext ==
  \/ WireBegin
  \/ WirePipes
  \/ WireStage
  \/ StageWrite
  \/ StageRead
  \/ StageExit

WireSpec == WireInit /\ [][WireNext]_vars


\* ------------------------------- Child / PipelineChild: take_stdin/out/err
\* the handle objects of the caller
Handles == {1, 2}

\* a default-constructed or moved-from handle: impl_ is null
NoImpl == [id |-> 0, pipes |-> NoEnds]

\* faulty variant: the pipe is handed out and the handle keeps it as well
take_pipe_keep(impl, name) == [ret |-> impl.pipes[name], impl |-> impl]

\* auto pipe = std::move(impl_->x_pipe); impl_->x_pipe.reset(); return pipe;
\* with if (!impl_) return std::nullopt before it
take_pipe(impl, name) ==
  IF impl.id = 0
    THEN [ret |-> Nullopt, impl |-> impl]
    ELSE [ret |-> impl.pipes[name],
          impl |-> [impl EXCEPT !.pipes[name] = Nullopt]]

\* the stream selections the spawned commands are drawn from
TakeConfigs ==
  {[stdin |-> "piped", stdout |-> "piped", stderr |-> "piped"],
   [stdin |-> "unset", stdout |-> "piped", stderr |-> "unset"]}

\* Command::spawn, or Pipeline::spawn on two stages, succeeds and its result
\* is move-assigned to a handle of the caller; the Impl the handle had is
\* destroyed
TakeSpawn ==
  /\ tk_spawns < MaxObjects
  /\ \E h \in Handles, head \in TakeConfigs, tail \in TakeConfigs,
        op \in {"spawn", "pipeline_spawn"} :
       LET tbl == CloseAll(tk_open, tk_handles[h].pipes)
           cmds == IF op = "spawn" THEN <<head>> ELSE <<head, tail>>
           ends == SpawnAll(cmds, 1, FALSE, tbl)
           wraps == IF op = "spawn" THEN ChildWraps(ends)
                                    ELSE PipelineWraps(ends)
       IN
       /\ op = "spawn" => tail = head
       /\ tk_spawns' = tk_spawns + 1
       /\ tk_open' = tbl \cup AllEnds(ends)
       /\ tk_handles' = [tk_handles EXCEPT
                           ![h] = [id |-> tk_spawns + 1, pipes |-> wraps]]
       /\ tk_wrapped' = Append(tk_wrapped, wraps)
  /\ UNCHANGED take_log
  /\ UNCHANGED but_tvars

\* move assignment between two handles: the target's Impl is destroyed, the
\* source is left empty
TakeMove ==
  /\ \E from \in Handles, to \in Handles :
       /\ from # to
       /\ tk_handles[from].id # 0
       /\ tk_open' = CloseAll(tk_open, tk_handles[to].pipes)
       /\ tk_handles' = [tk_handles EXCEPT ![to] = tk_handles[from],
                                           ![from] = NoImpl]
  /\ UNCHANGED <<tk_spawns, tk_wrapped, take_log>>
  /\ UNCHANGED but_tvars

\* one call of take_stdin, take_stdout or take_stderr on a handle; the
\* caller keeps what it gets
TakeCall ==
  /\ Len(take_log) < MaxTakes
  /\ \E h \in Handles, name \in StdStreams :
       LET t == take_pipe(tk_handles[h], name) IN
       /\ tk_handles' = [tk_handles EXCEPT ![h] = t.impl]
       /\ take_log' = Append(take_log,
                             [id |-> tk_handles[h].id, name |-> name,
                              ret |-> t.ret])
  /\ UNCHANGED <<tk_spawns, tk_open, tk_wrapped>>
  /\ UNCHANGED but_tvars

TakeInit ==
  /\ WaitIdle
  /\ child = "running"
  /\ PipeIdle
  /\ DrainIdle
  /\ ForkIdle
  /\ CmdIdle
  /\ SigIdle
  /\ LowerIdle
  /\ DupIdle
  /\ OvIdle
  /\ RaiiIdle
  /\ OutIdle
  /\ WireIdle
  /\ TakeIdle

TakeNext ==
  \/ TakeSpawn
  \/ TakeMove
  \/ TakeCall

TakeSpec == TakeInit /\ [][TakeNext]_vars


\* --------------------- Command::output and Pipeline::output, with the children
\* faulty variant: the drain starts before the stdin writer is closed
command_output_steps_drain_first == <<"drain", "close_stdin", "wait">>

\* Command::output after the spawn: take_stdin and close, take_stdout and
\* take_stderr with drain_pipes, child.wait()
command_output_steps == <<"close_stdin", "drain", "wait">>

\* Pipeline::output after spawn_pipeline: take_stdout and take_stderr with
\* drain_pipes, child_result->wait()
pipeline_output_steps == <<"drain", "wait">>

\* the stdin of stage j is at end of file: nobody holds the write end
StdinAtEof(j) ==
  IF j = 1 THEN ~stdin_writer ELSE out_stages[j - 1] = "exited"

\* the captured stdout and stderr are at end of file: the last stage, which
\* holds their write ends, has exited
CapturedAtEof == Last(out_stages) = "exited"

LogStep(step) ==
  out_log' = Append(out_log, [step |-> step, writer_open |-> stdin_writer,
                              eof |-> CapturedAtEof])

\* the call returns: the Child / PipelineChild and with it the stdin writer it
\* still holds is destroyed
OutReturn(r) ==
  /\ out_ret' = r
  /\ out_pc' = "returned"
  /\ stdin_writer' = FALSE

\* the call up to the handle: lowering and spawn of every stage
OutBegin ==
  /\ out_pc = "idle"
  /\ \E op \in {"command", "pipeline"}, n \in 1 .. MaxStages,
        head_stdin \in {"piped", "null"}, eager \in BOOLEAN,
        r \in {"ok", "spawn_failed"} :
       /\ op = "command" => n = 1
       /\ out_op' = op
       /\ IF r # "ok"
            THEN /\ out_ret' = r
                 /\ out_pc' = "returned"
                 /\ UNCHANGED <<out_stages, stdin_writer, out_eager, out_todo,
                                out_log>>
            ELSE /\ out_stages' = [j \in 1 .. n |-> "running"]
                 /\ stdin_writer' = (head_stdin = "piped")
                 /\ out_eager' = eager
                 /\ out_todo' = IF op = "command" THEN command_output_steps
                                                  ELSE pipeline_output_steps
                 /\ out_log' = <<[step |-> "spawn",
                                  writer_open |-> head_stdin = "piped",
                                  eof |-> FALSE]>>
                 /\ out_pc' = "running"
                 /\ UNCHANGED out_ret
  /\ UNCHANGED but_ovars

\* take_stdin and, when there is a pipe, close it
OutCloseStdin ==
  /\ out_pc = "running"
  /\ out_todo # <<>>
  /\ Head(out_todo) = "close_stdin"
  /\ LogStep("close_stdin")
  /\ stdin_writer' = FALSE
  /\ out_todo' = Tail(out_todo)
  /\ UNCHANGED <<out_pc, out_op, out_stages, out_eager, out_ret>>
  /\ UNCHANGED but_ovars

\* drain_pipes is entered
OutDrainStart ==
  /\ out_pc = "running"
  /\ out_todo # <<>>
  /\ Head(out_todo) = "drain"
  /\ LogStep("drain")
  /\ out_pc' = "draining"
  /\ UNCHANGED <<out_op, out_stages, stdin_writer, out_eager, out_todo, out_ret>>
  /\ UNCHANGED but_ovars

\* drain_pipes returns its result once both streams are at end of file
OutDrainDone ==
  /\ out_pc = "draining"
  /\ CapturedAtEof
  /\ out_pc' = "running"
  /\ out_todo' = Tail(out_todo)
  /\ UNCHANGED <<out_op, out_stages, stdin_writer, out_eager, out_log, out_ret>>
  /\ UNCHANGED but_ovars

\* drain_pipes fails: its error is returned without a wait
OutDrainFails ==
  /\ out_pc = "draining"
  /\ OutReturn("drain_failed")
  /\ UNCHANGED <<out_op, out_stages, out_eager, out_todo, out_log>>
  /\ UNCHANGED but_ovars

\* wait is called
OutWait ==
  /\ out_pc = "running"
  /\ out_todo # <<>>
  /\ Head(out_todo) = "wait"
  /\ LogStep("wait")
  /\ out_pc' = "waiting"
  /\ UNCHANGED <<out_op, out_stages, stdin_writer, out_eager, out_todo, out_ret>>
  /\ UNCHANGED but_ovars

\* wait returns once every stage has exited, and the call returns the Output
OutWaitDone ==
  /\ out_pc = "waiting"
  /\ \A j \in 1 .. Len(out_stages) : out_stages[j] = "exited"
  /\ OutReturn("ok")
  /\ out_todo' = Tail(out_todo)
  /\ UNCHANGED <<out_op, out_stages, out_eager, out_log>>
  /\ UNCHANGED but_ovars

\* a stage exits: at the end of file of its stdin, or at any time when the
\* program does not read its stdin
OutStageExits ==
  /\ \E j \in 1 .. Len(out_stages) :
       /\ out_stages[j] = "running"
       /\ out_eager \/ StdinAtEof(j)
       /\ out_stages' = [out_stages EXCEPT ![j] = "exited"]
  /\ UNCHANGED <<out_pc, out_op, stdin_writer, out_eager, out_todo, out_log,
                 out_ret>>
  /\ UNCHANGED but_ovars

OutInit ==
  /\ WaitIdle
  /\ child = "running"
  /\ PipeIdle
  /\ DrainIdle
  /\ ForkIdle
  /\ CmdIdle
  /\ SigIdle
  /\ LowerIdle
  /\ DupIdle
  /\ OvIdle
  /\ RaiiIdle
  /\ WireIdle
  /\ TakeIdle
  /\ OutIdle

\* the steps of the calling thread that do not fail
OutProgress ==
  \/ OutCloseStdin
  \/ OutDrainStart
  \/ OutDrainDone
  \/ OutWait
  \/ OutWaitDone

OutNext ==
  \/ OutBegin
  \/ OutProgress
  \/ OutDrainFails
  \/ OutStageExits

OutSpec == OutInit /\ [][OutNext]_vars

\* the calling thread keeps running and every child is scheduled
OutFairSpec ==
  /\ OutInit
  /\ [][OutNext]_vars
  /\ WF_vars(OutProgress)
  /\ WF_vars(OutStageExits)


\* ------------------------------- PipeReader, PipeWriter, unique_fd: ownership
\* the objects: two pipe endpoints (PipeReader and PipeWriter have the same
\* code) and two unique_fd
PipeObjs == {1, 2}

FdObjs == {3, 4}

\* the fd_ members and the ::close calls made so far
RaiiState == [fd_ |-> raii_fd, closes |-> raii_closes]

\* ::close(d)
sys_close(st, d) == [st EXCEPT !.closes[d] = @ + 1]

\* faulty variant: the source of a move keeps its descriptor
null_out_keep(st, o) == st

\* other.fd_ = -1 of the pipe moves; fd_ = -1 of unique_fd::release
null_out(st, o) == [st EXCEPT !.fd_[o] = 0 - 1]

\* PipeReader::close / PipeWriter::close
pipe_close(st, o) ==
  IF st.fd_[o] >= 0
    THEN [sys_close(st, st.fd_[o]) EXCEPT !.fd_[o] = 0 - 1]
    ELSE st

\* unique_fd::reset(fd)
unique_reset(st, o, fd) ==
  LET s1 == IF st.fd_[o] >= 0 THEN sys_close(st, st.fd_[o]) ELSE st
  IN [s1 EXCEPT !.fd_[o] = fd]

\* the move constructors: fd_(other.fd_), other.fd_ = -1 and
\* fd_(other.release())
move_construct(st, new, src) ==
  null_out([st EXCEPT !.fd_[new] = st.fd_[src]], src)

\* the move assignments, both guarded by this != &other
move_assign(st, dst, src) ==
  IF dst = src THEN st
  ELSE IF dst \in PipeObjs
    THEN LET s1 == pipe_close(st, dst)
         IN null_out([s1 EXCEPT !.fd_[dst] = s1.fd_[src]], src)
    ELSE LET fd == st.fd_[src]
         IN unique_reset(null_out(st, src), dst, fd)

\* close() of a pipe endpoint, reset(-1) of a unique_fd; the destructors call
\* the same
close_or_reset(st, o) ==
  IF o \in PipeObjs THEN pipe_close(st, o) ELSE unique_reset(st, o, 0 - 1)

SameClass(a, b) == (a \in PipeObjs) = (b \in PipeObjs)

RaiiApply(st, op) ==
  /\ raii_fd' = st.fd_
  /\ raii_closes' = st.closes
  /\ raii_ops' = raii_ops \cup {op}

\* an object is constructed: empty, or around a descriptor just opened
RaiiConstruct ==
  /\ \E o \in PipeObjs \cup FdObjs :
       /\ ~raii_alive[o]
       /\ raii_alive' = [raii_alive EXCEPT ![o] = TRUE]
       /\ \/ /\ raii_made < MaxOwned
             /\ raii_made' = raii_made + 1
             /\ RaiiApply([RaiiState EXCEPT !.fd_[o] = raii_made], "construct")
          \/ /\ RaiiApply([RaiiState EXCEPT !.fd_[o] = 0 - 1], "construct")
             /\ UNCHANGED raii_made
  /\ UNCHANGED but_rvars

\* an object is move-constructed from a live object of its class
RaiiMoveConstruct ==
  /\ \E new \in PipeObjs \cup FdObjs, src \in PipeObjs \cup FdObjs :
       /\ ~raii_alive[new]
       /\ raii_alive[src]
       /\ SameClass(new, src)
       /\ raii_alive' = [raii_alive EXCEPT ![new] = TRUE]
       /\ RaiiApply(move_construct(RaiiState, new, src), "move_construct")
  /\ UNCHANGED raii_made
  /\ UNCHANGED but_rvars

\* a live object is move-assigned from a live object of its class, itself
\* included
RaiiMoveAssign ==
  /\ \E dst \in PipeObjs \cup FdObjs, src \in PipeObjs \cup FdObjs :
       /\ raii_alive[dst]
       /\ raii_alive[src]
       /\ SameClass(dst, src)
       /\ RaiiApply(move_assign(RaiiState, dst, src),
                    IF dst = src THEN "self_assign" ELSE "move_assign")
  /\ UNCHANGED <<raii_alive, raii_made>>
  /\ UNCHANGED but_rvars

\* close() is called on a pipe endpoint
RaiiClose ==
  /\ \E o \in PipeObjs :
       /\ raii_alive[o]
       /\ RaiiApply(pipe_close(RaiiState, o), "close")
  /\ UNCHANGED <<raii_alive, raii_made>>
  /\ UNCHANGED but_rvars

\* an object is destroyed
RaiiDestroy ==
  /\ \E o \in PipeObjs \cup FdObjs :
       /\ raii_alive[o]
       /\ raii_alive' = [raii_alive EXCEPT ![o] = FALSE]
       /\ RaiiApply(close_or_reset(RaiiState, o), "destroy")
  /\ UNCHANGED raii_made
  /\ UNCHANGED but_rvars

RaiiInit ==
  /\ WaitIdle
  /\ child = "running"
  /\ PipeIdle
  /\ DrainIdle
  /\ ForkIdle
  /\ CmdIdle
  /\ SigIdle
  /\ LowerIdle
  /\ DupIdle
  /\ OvIdle
  /\ WireIdle
  /\ TakeIdle
  /\ OutIdle
  /\ RaiiIdle

RaiiNext ==
  \/ RaiiConstruct
  \/ RaiiMoveConstruct
  \/ RaiiMoveAssign
  \/ RaiiClose
  \/ RaiiDestroy

RaiiSpec == RaiiInit /\ [][RaiiNext]_vars


\* --------------------- ScopedBackendOverride / ScopedClockOverride, one pointer
\* the threads that construct scoped overrides on their stacks
OvThreads == {1, 2}

\* nullptr in g_backend_override / g_clock_override
Nullptr == 0

\* default_backend() / default_clock(): the override when one is set, else
\* the built-in object, written Nullptr
default_backend == IF ov_g # Nullptr THEN ov_g ELSE Nullptr

\* faulty variant: the destructor clears the pointer
restored_default(ov) == Nullptr

\* what the destructor stores: previous_
restored(ov) == ov_prev[ov]

\* a thread constructs a scoped override around its own backend (clock):
\* previous_(g_backend_override.exchange(&backend))
OvConstruct ==
  /\ ov_made < MaxOverrides
  /\ \E t \in OvThreads :
       LET ov == ov_made + 1 IN
       /\ ov_made' = ov
       /\ ov_prev' = [ov_prev EXCEPT ![ov] = ov_g]
       /\ ov_g' = ov
       /\ ov_stacks' = [ov_stacks EXCEPT ![t] = Append(@, ov)]
       /\ ov_live' = Append(ov_live, ov)
       /\ UNCHANGED ov_nested
  /\ UNCHANGED but_xvars

\* the innermost scoped override of a thread goes out of scope:
\* g_backend_override.store(previous_)
OvDestroy ==
  /\ \E t \in OvThreads :
       /\ ov_stacks[t] # <<>>
       /\ LET ov == Last(ov_stacks[t]) IN
          /\ ov_g' = restored(ov)
          /\ ov_stacks' = [ov_stacks EXCEPT ![t] = SubSeq(@, 1, Len(@) - 1)]
          /\ ov_live' = SelectSeq(ov_live, LAMBDA x : x # ov)
          /\ ov_nested' = (ov_nested /\ ov = Last(ov_live))
  /\ UNCHANGED <<ov_made, ov_prev>>
  /\ UNCHANGED but_xvars

OvInit ==
  /\ WaitIdle
  /\ child = "running"
  /\ PipeIdle
  /\ DrainIdle
  /\ ForkIdle
  /\ CmdIdle
  /\ SigIdle
  /\ LowerIdle
  /\ DupIdle
  /\ WireIdle
  /\ TakeIdle
  /\ OutIdle
  /\ RaiiIdle
  /\ OvIdle

OvNext ==
  \/ OvConstruct
  \/ OvDestroy

OvSpec == OvInit /\ [][OvNext]_vars


\* ------------------------ PosixBackend::spawn: the child's descriptors 0, 1, 2
Sel(kind, fd) == [kind |-> kind, fd |-> fd]

\* the StdioSpec values of a stream: fd(n) names one of the parent's
\* descriptors
StreamSpecs ==
  {Sel("inherit", 0), Sel("null", 0), Sel("piped", 0)}
    \cup {Sel("fd", n) : n \in Baseline}

DupSpecs ==
  [stdin : StreamSpecs, stdout : StreamSpecs,
   stderr : StreamSpecs \cup {Sel("dup_stdout", 0)}]

\* the open files: those of the parent at spawn time, /dev/null opened for a
\* stream, the child's and the parent's end of a stream's pipe
ParentFile(d) == [kind |-> "parent", of |-> d]

NullFile(name) == [kind |-> "null", of |-> StdFd(name)]

ChildEnd(name) == [kind |-> "child_end", of |-> StdFd(name)]

ParentEnd(name) == [kind |-> "parent_end", of |-> StdFd(name)]

ParentFiles == [d \in Baseline |-> ParentFile(d)]

\* create_pipe in the parent for a piped stream: the read end is the child's
\* for stdin and the parent's for the others
WithPipe(tbl, name) ==
  LET r == LowestFree(DOMAIN tbl)
      w == LowestFree(DOMAIN tbl \cup {r})
      read_only == name = "stdin"
  IN [read_fd |-> r, write_fd |-> w,
      child_fd |-> IF read_only THEN r ELSE w,
      tbl |-> tbl @@ (r :> IF read_only THEN ChildEnd(name) ELSE ParentEnd(name))
                  @@ (w :> IF read_only THEN ParentEnd(name) ELSE ChildEnd(name))]

\* the steps run in the child
Dup2(from, to) == [op |-> "dup2", from |-> from, to |-> to]

OpenNull(name) == [op |-> "open", from |-> 0, to |-> StdFd(name)]

CloseFd(fd) == [op |-> "close", from |-> 0, to |-> fd]

\* open_for_spec of the fork path: the descriptor the child is to dup2 onto
\* the stream's number, and the parent's table after the opens
open_for_spec(tbl, s, name) ==
  CASE s.kind = "inherit" -> [fd |-> StdFd(name), tbl |-> tbl]
    [] s.kind = "null" ->
         LET d == LowestFree(DOMAIN tbl)
         IN [fd |-> d, tbl |-> tbl @@ (d :> NullFile(name))]
    [] s.kind = "fd" -> [fd |-> s.fd, tbl |-> tbl]
    [] s.kind = "piped" ->
         LET p == WithPipe(tbl, name) IN [fd |-> p.child_fd, tbl |-> p.tbl]
    [] OTHER -> [fd |-> StdFd("stdout"), tbl |-> tbl]

\* if (child_x != X_FILENO) dup2(child_x, X_FILENO)
Dup2Unless(fd, name) ==
  IF fd # StdFd(name) THEN <<Dup2(fd, StdFd(name))>> ELSE <<>>

\* the fork path: the opens in the order stdout, stdin, stderr, the table the
\* child inherits, and its dup2 calls in the order stdin, stdout, stderr
ForkPlan(spec) ==
  LET o == open_for_spec(ParentFiles, spec.stdout, "stdout")
      i == open_for_spec(o.tbl, spec.stdin, "stdin")
      e == IF spec.stderr.kind = "dup_stdout"
             THEN [fd |-> o.fd, tbl |-> i.tbl]
             ELSE open_for_spec(i.tbl, spec.stderr, "stderr")
  IN [tbl |-> e.tbl,
      acts |-> Dup2Unless(i.fd, "stdin") \o Dup2Unless(o.fd, "stdout")
                 \o Dup2Unless(e.fd, "stderr")]

\* setup_stdio of the posix_spawn path: the file actions added for a stream
setup_stdio(tbl, s, name) ==
  CASE s.kind = "inherit" -> [tbl |-> tbl, acts |-> <<>>]
    [] s.kind = "null" -> [tbl |-> tbl, acts |-> <<OpenNull(name)>>]
    [] s.kind = "fd" -> [tbl |-> tbl, acts |-> Dup2Unless(s.fd, name)]
    [] s.kind = "piped" ->
         LET p == WithPipe(tbl, name)
         IN [tbl |-> p.tbl,
             acts |-> <<Dup2(p.child_fd, StdFd(name)), CloseFd(p.read_fd),
                        CloseFd(p.write_fd)>>]
    [] OTHER -> [tbl |-> tbl, acts |-> <<Dup2(StdFd("stdout"), StdFd("stderr"))>>]

\* the posix_spawn path: the file actions of stdin, stdout, stderr in this
\* order
SpawnPlan(spec) ==
  LET i == setup_stdio(ParentFiles, spec.stdin, "stdin")
      o == setup_stdio(i.tbl, spec.stdout, "stdout")
      e == setup_stdio(o.tbl, spec.stderr, "stderr")
  IN [tbl |-> e.tbl, acts |-> i.acts \o o.acts \o e.acts]

\* one dup2, open or close in the child
Applied(tbl, a) ==
  CASE a.op = "dup2" ->
         [d \in DOMAIN tbl \cup {a.to} |-> IF d = a.to THEN tbl[a.from] ELSE tbl[d]]
    [] a.op = "open" ->
         [d \in DOMAIN tbl \cup {a.to} |->
            IF d = a.to THEN [kind |-> "null", of |-> a.to] ELSE tbl[d]]
    [] OTHER -> [d \in DOMAIN tbl \ {a.to} |-> tbl[d]]

\* PosixBackend::spawn up to the child: the preparation in the parent
DupBegin ==
  /\ dup_pc = "idle"
  /\ \E spec \in DupSpecs, path \in {"fork", "posix_spawn"} :
       LET plan == IF path = "fork" THEN ForkPlan(spec) ELSE SpawnPlan(spec) IN
       /\ dup_spec' = spec
       /\ dup_path' = path
       /\ dup_tbl' = plan.tbl
       /\ dup_todo' = plan.acts
  /\ dup_pc' = "child"
  /\ UNCHANGED but_uvars

\* the child performs its next descriptor operation; a dup2 from a closed
\* descriptor fails and the child exits
DupChildStep ==
  /\ dup_pc = "child"
  /\ dup_todo # <<>>
  /\ LET a == Head(dup_todo) IN
       IF a.op = "dup2" /\ a.from \notin DOMAIN dup_tbl
         THEN /\ dup_pc' = "failed"
              /\ UNCHANGED <<dup_tbl, dup_todo>>
         ELSE /\ dup_tbl' = Applied(dup_tbl, a)
              /\ dup_todo' = Tail(dup_todo)
              /\ UNCHANGED dup_pc
  /\ UNCHANGED <<dup_spec, dup_path>>
  /\ UNCHANGED but_uvars

\* the program is executed
DupExec ==
  /\ dup_pc = "child"
  /\ dup_todo = <<>>
  /\ dup_pc' = "execd"
  /\ UNCHANGED <<dup_spec, dup_path, dup_tbl, dup_todo>>
  /\ UNCHANGED but_uvars

DupInit ==
  /\ WaitIdle
  /\ child = "running"
  /\ PipeIdle
  /\ DrainIdle
  /\ ForkIdle
  /\ CmdIdle
  /\ SigIdle
  /\ LowerIdle
  /\ WireIdle
  /\ TakeIdle
  /\ OutIdle
  /\ RaiiIdle
  /\ OvIdle
  /\ DupIdle

DupNext ==
  \/ DupBegin
  \/ DupChildStep
  \/ DupExec

DupSpec == DupInit /\ [][DupNext]_vars

\* ------------------------------------------------- wait policy properties
Count(op) == Len(SelectSeq(calls, LAMBDA c : c = op))

IsSignalOp(c) == c \in {"terminate", "kill", "wait_blocking"}

SignalOps == SelectSeq(calls, IsSignalOp)

\* C1: when try_wait reports the exit status in the grace loop (after terminate
\* was sent), the call returns the timeout error and not the status; terminate
\* was called exactly once, kill and wait_blocking never.
C1_GraceExitReportsTimeout ==
  (wpc = "done" /\ exit_seen = "grace") =>
    /\ wait_ret = TimeoutError
    /\ Count("terminate") = 1
    /\ Count("kill") = 0
    /\ Count("wait_blocking") = 0

\* a call whose first loop polled a running child and whose grace loop then
\* saw the exit
C1_Witness ==
  /\ wpc = "done"
  /\ exit_seen = "grace"
  /\ child_at_call = "running"
  /\ timeout > 0
  /\ Count("try_wait") >= 2

C3_StatusBeforeDeadline ==
  (wpc = "done" /\ exit_seen = "poll") =>
    /\ wait_ret = Ok(seen_status)
    /\ seen_status = to_exit_status(wstatus)
    /\ SignalOps = <<>>

\* the exit was seen on a later poll, after at least one sleep, and is not a
\* plain success
C3_Witness ==
  /\ wpc = "done"
  /\ exit_seen = "poll"
  /\ Count("sleep_for") >= 1
  /\ ~success(seen_status)

\* C4 (as stated): timeout = 0 on a child that has already exited returns the
\* child's exit status and never invokes terminate.
C4_ZeroTimeoutReturnsStatus ==
  (wpc = "done" /\ timeout = 0 /\ child_at_call = "zombie") =>
    /\ wait_ret = Ok(to_exit_status(wstatus))
    /\ Count("terminate") = 0

\* C5: without a timeout the call makes exactly one call, wait_blocking, and
\* returns its result unchanged; no try_wait, terminate, kill, now or
\* sleep_for, whatever kill_grace is.
C5_NoTimeoutBlocks ==
  (wpc = "done" /\ timeout = Nullopt) =>
    /\ calls = <<"wait_blocking">>
    /\ wait_ret = wb_result
    /\ wait_ret # Pending

\* a call without timeout and with a non-zero kill_grace that returned the
\* status of a child that did not exit with success
C5_Witness ==
  /\ wpc = "done"
  /\ timeout = Nullopt
  /\ kill_grace > 0
  /\ wait_ret.ok
  /\ ~success(wait_ret.status)

\* C6: whenever a wait with a timeout returns the timeout error, the child is
\* neither running nor a zombie: a try_wait of the grace loop consumed its
\* status, or kill was sent and the blocking reap was performed.
C6_TimeoutLeavesNoChild ==
  (wpc = "done" /\ timeout # Nullopt /\ wait_ret = TimeoutError) =>
    /\ child = "reaped"
    /\ \/ exit_seen = "grace"
       \/ SignalOps = <<"terminate", "kill", "wait_blocking">>

\* the child was still running when kill was sent, and the call returned
\* timeout after the blocking reap
C6_Witness ==
  /\ wpc = "done"
  /\ wait_ret = TimeoutError
  /\ exit_seen = "none"
  /\ child_at_call = "running"
  /\ wb_result.ok
  /\ wb_result.status.kind = "other"

\* --------------------------------------------------- pipeline properties
StageIndexes(n) == [i \in 1 .. n |-> i - 1]

SpecStages == [i \in 1 .. Len(spawn_specs) |-> spawn_specs[i].stage]

Range(seq) == {seq[i] : i \in 1 .. Len(seq)}

\* C7 (as stated): when the backend fails to spawn a stage, every stage
\* spawned before it has been killed once through the backend's kill and
\* reaped once through the backend's wait by the time the error is returned.
C7_FailedSpawnCleansUp ==
  (ppc = "failed" /\ Len(spawn_failures) > 0) =>
    /\ Len(kill_pids) = Len(spawned)
    /\ Range(kill_pids) = Range(Pids(spawned))
    /\ Len(wait_calls) = Len(spawned)
    /\ Range(wait_calls) = Range(Pids(spawned))

\* C8: when the backend fails to spawn stage k, the backend's spawn has been
\* invoked exactly once per stage 0..k and for no later stage, and
\* Pipeline::spawn returns that first spawn error.
C8_SpawnStopsAtFirstError ==
  Len(spawn_failures) > 0 =>
    /\ Len(spawn_failures) = 1
    /\ SpecStages = StageIndexes(spawn_failures[1].stage + 1)
    /\ ppc = "failed"
    /\ spawn_ret = spawn_failures[1].code

\* the second of three stages failed to spawn
C8_Witness ==
  /\ Len(stages_) = MaxStages
  /\ Len(spawn_failures) = 1
  /\ spawn_failures[1].stage = 1
  /\ ppc = "failed"

\* C9: with pipefail on the aggregate is the status of the lowest-index stage
\* that is not a success, or the tail's status if all succeeded; with pipefail
\* off it is the tail's status.
C9_AggregateRule ==
  (ppc = "done" /\ pwait_ret.ok) =>
    LET sts == status.stages
        n == Len(sts)
        agg == status.aggregate
    IN /\ n > 0
       /\ pwait_ret.status = agg
       /\ IF pipefail_
            THEN \/ \E i \in 1 .. n :
                      /\ ~success(sts[i])
                      /\ \A j \in 1 .. i - 1 : success(sts[j])
                      /\ agg = sts[i]
                 \/ /\ \A i \in 1 .. n : success(sts[i])
                    /\ agg = sts[n]
            ELSE agg = sts[n]

\* pipefail on, an early stage failed and the tail ended differently
C9_Witness ==
  /\ ppc = "done"
  /\ pwait_ret.ok
  /\ pipefail_
  /\ Len(status.stages) >= 2
  /\ ~success(status.stages[1])
  /\ status.aggregate # Last(status.stages)

\* C10: a successful spawn of N stages made exactly N backend spawn calls in
\* stage order, and a successful wait made exactly one backend wait call per
\* stage in stage order, so that status.stages[i] is the status the backend
\* reported for stage i's process.
C10_StagesInOrder ==
  /\ spawn_ret = "ok" =>
       /\ SpecStages = StageIndexes(Len(stages_))
       /\ Len(spawned) = Len(stages_)
  /\ (ppc = "done" /\ pwait_ret.ok) =>
       /\ wait_calls = Pids(spawned)
       /\ Len(status.stages) = Len(stages_)
       /\ \A i \in 1 .. Len(spawned) :
            \E j \in 1 .. Len(exit_of) :
              /\ exit_of[j].pid = spawned[i].pid
              /\ exit_of[j].st = status.stages[i]
              /\ \A k \in 1 .. Len(exit_of) :
                   exit_of[k].pid = spawned[i].pid => k = j

\* three stages, waited with success, the first two ending differently
C10_Witness ==
  /\ ppc = "done"
  /\ pwait_ret.ok
  /\ Len(status.stages) = MaxStages
  /\ status.stages[1] # status.stages[2]

\* ------------------------------------------------------------ claim C11
\* the error codes lowering produces
LoweringErrors == {"empty_argv", "invalid_stdio", "invalid_pipeline"}

\* C11: when Pipeline::spawn returns a lowering error (empty_argv,
\* invalid_stdio, invalid_pipeline), no pipe has been created and the
\* backend's spawn has not been called for any stage.
C11_LoweringBeforeResources ==
  (ppc = "failed" /\ spawn_ret \in LoweringErrors)
    => (pipes_made = 0 /\ spawn_specs = <<>>)

\* ------------------------------------------------------ claims C12, C13
\* the payload of stream s once n bytes of it were written
Payload(s, n) == [i \in 1 .. n |-> Byte(s, i)]

HardErrors == {"fcntl", "poll", "read"}

C13_NoBackPressureDeadlock ==
  /\ <>(dpc = "returned")
  /\ \A s \in Streams :
       (pipe_buf[s] # <<>>) ~> (pipe_buf[s] = <<>> \/ dresult \in HardErrors)
  /\ []((dpc = "returned" /\ dresult = "ok")
          => \A s \in Streams :
               done[s] /\ (present[s] => ~wopen[s] /\ pipe_buf[s] = <<>>))
  /\ [](dpc \in {"poll", "scan", "read"}
          => active = Cardinality({s \in Streams : ~done[s]}))
  /\ [](dpc \in {"poll", "read"} => active > 0)

\* the drain found one stream empty while the writer sat blocked on the other
\* stream's full buffer, and still returned everything of both
C13_Witness ==
  /\ dpc = "returned"
  /\ dresult = "ok"
  /\ stalled # {}
  /\ \A s \in Streams : Len(out[s]) = MaxBytes

\* ------------------------------------------------- claims C14 .. C18
\* position of a child step in the child's program
StepIndex(step) == CHOOSE j \in 1 .. Len(ChildOrder) : ChildOrder[j] = step

\* the child's steps so far follow the program order
LogInOrder ==
  \A i \in 1 .. Len(child_log) - 1 :
    StepIndex(child_log[i]) < StepIndex(child_log[i + 1])

\* what the child does when one of its steps fails: nothing after that step,
\* exit with kExecFailureExitCode
ChildFailureProtocol ==
  failed_step.step # "none"
    => /\ child_log # <<>>
       /\ Last(child_log) = failed_step.step
       /\ LogInOrder
       /\ exit_code = kExecFailureExitCode
       /\ cpc \in {"zombie", "reaped"}

\* C14: whenever the backend's spawn has returned an error, no child process
\* created by the call remains, running or zombie.
C14_ErrorLeavesNoChild ==
  (fpc = "returned" /\ fret # "ok") => cpc \in {"none", "reaped"}

C16_NoInheritedFdAfterExec ==
  cpc = "running"
    => \A fd \in fork_fds : fd > StdFd("stderr") => fd \notin cfds

\* C17: the close loop's bound is the limit of the parent, whatever sysconf
\* answers in the child, and an inherited descriptor at or above the limit
\* the child observes is closed by the loop.
C17_CloseBoundFromParent ==
  close_bound # 0
    => /\ close_bound = max_open_fd_limit(ParentOpenMax)
       /\ \A fd \in fork_fds :
            (/\ fd > StdFd("stderr")
             /\ fd >= max_open_fd_limit(child_open_max)
             /\ fd # error_fds.w)
              => fd \notin cfds

\* C18: when spawn has returned an error, no descriptor it opened is open in
\* the parent; when it has returned ok, exactly the parent ends of the piped
\* streams are.
C18_PreparedFdsClosed ==
  /\ (fpc = "returned" /\ fret # "ok") => OpenedSet \cap fd_table = {}
  /\ (fpc = "returned" /\ fret = "ok") => OpenedSet \cap fd_table = KeptEnds

\* ------------------------------------------------------ claims C19, C20
\* C19: between Command::status / Command::output calls that all succeeded,
\* the descriptors open in the parent are the ones open before the calls.
C19_FdSetStable ==
  (hpc = "idle" /\ all_ok) => open_fds = Baseline

\* MaxCalls calls have succeeded, each with all three streams piped
C19_Witness ==
  /\ hpc = "idle"
  /\ all_ok
  /\ ncalls = MaxCalls
  /\ piped_calls = MaxCalls
  /\ open_fds = Baseline

\* the pipes the caller took out of the handle
TakenEnds == {locals[name] : name \in StdStreams} \ {Nullopt}

\* C20: once a Child or PipelineChild has been dropped, every parent end the
\* backend returned for any of its stages is closed unless the caller took it.
C20_DropClosesAllEnds ==
  hpc = "dropped" => (AllEnds(stage_ends) \ TakenEnds) \cap open_fds = {}

\* ------------------------------------------------------ claims C21, C22
\* C21: in a pipeline that requests a new process group, the spec handed to
\* the backend for the first stage asks for a new group and names no group,
\* and the spec of every later stage names the first stage's pid as its
\* group and does not itself ask for a new group.
C21_GroupSpecsPropagate ==
  new_pgrp_ =>
    \A k \in 1 .. Len(spawn_specs) :
      IF k = 1
        THEN /\ spawn_specs[k].new_process_group
             /\ spawn_specs[k].process_group = Nullopt
        ELSE /\ spawn_specs[k].process_group = PidBase + 1
             /\ ~spawn_specs[k].new_process_group

\* C22: in a pipeline that requests a new process group, every spawned stage
\* is in the group led by the first stage, whatever the stage commands ask.
C22_OneGroup ==
  new_pgrp_ =>
    \A k \in 1 .. Len(spawned) : spawned[k].pgid = spawned[1].pid

\* ------------------------------------------------------------- claim C23
\* the backend log of a signal call of the pipeline handle
SignalLog(op) == IF op = "terminate" THEN terminate_pids ELSE kill_pids

C24_SignalTarget ==
  \A k \in 1 .. Len(kill_calls) :
    LET c == kill_calls[k]
        group == sig_spawned.new_process_group /\ sig_spawned.pgid # Nullopt
    IN /\ group => c.target = 0 - sig_spawned.pgid
       /\ ~group => c.target = sig_spawned.pid
       /\ c.via = "terminate" => c.signo = SIGTERM
       /\ c.via = "kill" => c.signo = SIGKILL

\* a stage that joined a leader's group was terminated and then killed
C24_Witness ==
  /\ sig_spec.process_group = PidBase + 1
  /\ sig_spawned.pid = PidBase + 2
  /\ Len(kill_calls) = 2
  /\ kill_calls[1] = [target |-> 0 - (PidBase + 1), signo |-> SIGTERM,
                      via |-> "terminate"]
  /\ kill_calls[2].via = "kill"

\* ----------------------------------------------------- claims C25 .. C28
\* the selection of a stream in the call that was made
Chosen(name) == Selected(lw_in.cmd, lw_in.ov, name)

\* a selection that stdio validation rejects for a stream
Rejected(name, v) ==
  \/ v.kind = "fd" /\ v.fd < 0
  \/ /\ v.kind = "file"
     /\ name = "stdin"
     /\ v.mode \notin {"none", "read", "read_write"}
  \/ /\ v.kind = "file"
     /\ name # "stdin"
     /\ v.mode = "read"

SpecOf(name) ==
  CASE name = "stdin" -> lw_out.stdin_spec
    [] name = "stdout" -> lw_out.stdout_spec
    [] name = "stderr" -> lw_out.stderr_spec

\* C25: lower_command of a command with an argv fails with invalid_stdio
\* exactly when a stream selection is a stdin file with a mode other than
\* read or read_write, a stdout/stderr file with mode read, or fd(n), n < 0;
\* a returned SpawnSpec has a readable stdin file mode, writable stdout and
\* stderr file modes, non-negative fd numbers and dup_stdout in the stderr
\* slot only, and a file without a mode gets read for stdin and
\* write_truncate for stdout and stderr.
C25_StdioValidation ==
  (lw_pc = "lowered" /\ ~lw_in.cmd.argv_empty) =>
    /\ lw_out.code = "invalid_stdio"
         <=> \E name \in StdStreams : Rejected(name, Chosen(name))
    /\ lw_out.ok =>
         /\ lw_out.stdin_spec.kind = "file"
              => lw_out.stdin_spec.mode \in {"read", "read_write"}
         /\ \A name \in {"stdout", "stderr"} :
              SpecOf(name).kind = "file"
                => SpecOf(name).mode
                     \in {"write_truncate", "write_append", "read_write"}
         /\ \A name \in StdStreams :
              /\ SpecOf(name).kind = "fd" => SpecOf(name).fd >= 0
              /\ SpecOf(name).kind = "dup_stdout" => name = "stderr"
              /\ (Chosen(name) = FileOf("none") /\ SpecOf(name).kind = "file")
                   => SpecOf(name).mode =
                        IF name = "stdin" THEN "read" ELSE "write_truncate"

\* a read-only stdout file is rejected next to a read/write stdin file
C25_Witness ==
  /\ lw_pc = "lowered"
  /\ ~lw_in.cmd.argv_empty
  /\ Chosen("stdin") = FileOf("read_write")
  /\ Chosen("stdout") = FileOf("read")
  /\ Chosen("stderr") = FileOf("none")
  /\ lw_out.code = "invalid_stdio"

\* C26: with merge_stderr_into_stdout the stderr selection is ignored: the
\* call returns what it returns for every other stderr selection, and on
\* success the stderr spec is dup_stdout.
C26_MergeIgnoresStderr ==
  (lw_pc = "lowered" /\ lw_in.cmd.merge_stderr_into_stdout) =>
    /\ \A v \in StdioValues :
         lower_command([lw_in.cmd EXCEPT !.stderr = v], lw_in.mode,
                       [lw_in.ov EXCEPT !.stderr = Unset], <<>>).code
           = lw_out.code
    /\ lw_out.ok => lw_out.stderr_spec.kind = "dup_stdout"

\* the streams in the order lower_command resolves them
ResolveOrder == <<"stdin", "stdout", "stderr">>

\* C27: an unset stdout or stderr resolves to piped in output mode and to
\* inherit in spawn mode, an unset stdin to inherit in both; a selection
\* that is set is not replaced by a default; an override, when present, is
\* the selection that is resolved.
C27_Defaults ==
  lw_pc = "lowered" =>
    \A i \in 1 .. Len(lw_out.resolved) :
      LET name == ResolveOrder[i]
          r == lw_out.resolved[i]
          own == lw_in.cmd[name]
          over == lw_in.ov[name]
      IN /\ (own = Unset /\ over = Unset) =>
              /\ r.ok
              /\ r.spec.kind =
                   IF name # "stdin" /\ lw_in.mode = "output"
                     THEN "piped" ELSE "inherit"
         /\ (over # Unset /\ r.ok) => r.spec.kind = over.kind
         /\ (over # Unset /\ ~r.ok) => Rejected(name, over)
         /\ (over = Unset /\ own # Unset /\ r.ok) => r.spec.kind = own.kind

\* output mode: stdout unset, stderr set to null by the command and to
\* piped by an override, stdin unset
C27_Witness ==
  /\ lw_pc = "lowered"
  /\ lw_out.ok
  /\ lw_in.mode = "output"
  /\ lw_in.cmd.stdout = Unset /\ lw_in.ov.stdout = Unset
  /\ lw_in.cmd.stdin = Unset /\ lw_in.ov.stdin = Unset
  /\ lw_in.cmd.stderr = Plain("null") /\ lw_in.ov.stderr = Plain("piped")
  /\ ~lw_in.cmd.merge_stderr_into_stdout
  /\ lw_out.stdout_spec.kind = "piped"
  /\ lw_out.stderr_spec.kind = "piped"
  /\ lw_out.stdin_spec.kind = "inherit"

\* the value the claim gives key k, Absent for none
Expected(k) ==
  LET d == lw_in.cmd.env_delta[k] IN
    IF d = Removed THEN Absent
    ELSE IF d # Absent THEN d
    ELSE IF lw_in.cmd.inherit_env THEN lw_in.penv[k]
    ELSE Absent

\* C28: the envp of a successful lower_command has one KEY=VALUE entry per
\* key, sorted by key: k=v is there exactly when env_delta sets k to v, or
\* the environment is inherited, maps k to v, and env_delta has no entry
\* for k.
C28_Envp ==
  (lw_pc = "lowered" /\ lw_out.ok) =>
    LET envp == lw_out.envp
        keys == {k \in KeyNames : Expected(k) # Absent}
    IN /\ Len(envp) = Cardinality(keys)
       /\ \A k \in keys :
            \E i \in 1 .. Len(envp) : envp[i] = Entry(k, Expected(k))
       /\ \A i \in 1 .. Len(envp) :
            \E k \in keys : envp[i] = Entry(k, Expected(k))
       /\ \A i \in 1 .. Len(envp) : \A j \in i + 1 .. Len(envp) :
            \E k1 \in keys, k2 \in keys :
              /\ envp[i] = Entry(k1, Expected(k1))
              /\ envp[j] = Entry(k2, Expected(k2))
              /\ LexLess(k1, k2)

\* "A" is inherited and removed, "A1" is set, "B" is inherited
C28_Witness ==
  /\ lw_pc = "lowered"
  /\ lw_out.ok
  /\ lw_in.cmd.inherit_env
  /\ lw_in.junk
  /\ lw_in.penv = [k \in KeyNames |->
                     IF k = <<65, 49>> THEN Absent ELSE <<120, EqualsSign>>]
  /\ lw_in.cmd.env_delta = [k \in KeyNames |->
                              CASE k = <<65>> -> Removed
                                [] k = <<65, 49>> -> <<>>
                                [] OTHER -> Absent]
  /\ lw_out.envp = <<Entry(<<65, 49>>, <<>>),
                     Entry(<<66>>, <<120, EqualsSign>>)>>

\* ------------------------------------------------------------- claim C29
\* C29: lower_command rejects every command without argv with empty_argv,
\* whatever its stdio selections, options, mode and overrides are, and the
\* backend's spawn returns empty_argv for a spec without argv with no
\* descriptor opened and no child forked.
C29_EmptyArgvRejected ==
  /\ fpc = "unused" =>
       \A cmd \in StdioCommands \cup EnvCommands :
         cmd.argv_empty =>
           \A mode \in {"spawn", "output"}, ov \in [StdStreams -> OverrideValues] :
             lower_command(cmd, mode, ov, <<>>).code = "empty_argv"
  /\ (fpc # "unused" /\ fspec.argv_empty) =>
       /\ fpc = "returned"
       /\ fret = "empty_argv"
       /\ fd_table = Baseline
       /\ opened_fds = <<>>
       /\ KeptEnds = {}
       /\ cpc = "none"

\* a spec without argv whose streams would all need descriptors
C29_Witness ==
  /\ fspec.argv_empty
  /\ fspec.stdin = "piped"
  /\ fspec.stdout = "piped"
  /\ fspec.stderr = "file"
  /\ fret = "empty_argv"
  /\ fd_table = Baseline

\* ------------------------------------------------------------- claim C30
\* C30: lower_pipeline fails with invalid_pipeline for an empty pipeline;
\* for N >= 1 stages it returns N stage specs in order, stage i with mode
\* spawn for i < N-1 and the caller's mode for i = N-1, stdin_from_prev =
\* (i > 0), stdout_to_next = (i < N-1), the pipeline's stdin override on
\* stage 0 only and its stdout and stderr overrides on stage N-1 only.
C30_PipelineWiring ==
  lw_pc = "lowered_pipeline" =>
    LET pl == lw_in.pipeline
        N == pl.n
    IN IF N = 0
         THEN ~lw_out.ok /\ lw_out.code = "invalid_pipeline"
         ELSE /\ lw_out.ok
              /\ Len(lw_out.stages) = N
              /\ \A i \in 0 .. N - 1 :
                   LET st == lw_out.stages[i + 1] IN
                     /\ st.command = i
                     /\ st.mode = IF i < N - 1 THEN "spawn" ELSE lw_in.mode
                     /\ st.stdin_from_prev = (i > 0)
                     /\ st.stdout_to_next = (i < N - 1)
                     /\ st.overrides.stdin = IF i = 0 THEN pl.stdin ELSE Unset
                     /\ st.overrides.stdout =
                          IF i = N - 1 THEN pl.stdout ELSE Unset
                     /\ st.overrides.stderr =
                          IF i = N - 1 THEN pl.stderr ELSE Unset

\* a pipeline of MaxStages stages with all three options, in output mode
C30_Witness ==
  /\ lw_pc = "lowered_pipeline"
  /\ lw_out.ok
  /\ lw_in.mode = "output"
  /\ lw_in.pipeline.n = MaxStages
  /\ lw_in.pipeline.stdin = Plain("piped")
  /\ lw_in.pipeline.stdout = Plain("piped")
  /\ lw_in.pipeline.stderr = FdOf(0 - 1)
  /\ Len(lw_out.stages) = MaxStages

\* ------------------------------------------------------ claims C31, C38
\* C31: a pipeline of N stages that was spawned made exactly N-1 pipes; a
\* stage after the head is spawned with stdin = fd(read end of the pipe
\* before it) and a stage before the tail with stdout = fd(write end of the
\* pipe after it), whatever its own command selects; what a stage has
\* written to stdout is what the next stage has read plus what is still in
\* the pipe.
C31_PipelinePlumbing ==
  /\ wire_ret = "ok" => Len(wire_made) = Len(wire_cmds) - 1
  /\ \A j \in 1 .. Len(wire_specs) :
       /\ j > 1 =>
            /\ wire_specs[j].stdin.kind = "fd"
            /\ wire_specs[j].stdin.fd = wire_made[j - 1].first
            /\ child_files[j].stdin = PipeFile(j - 1, "r")
       /\ j < Len(wire_cmds) =>
            /\ wire_specs[j].stdout.kind = "fd"
            /\ wire_specs[j].stdout.fd = wire_made[j].second
            /\ child_files[j].stdout = PipeFile(j, "w")
       /\ j > 1 => got[j] \o pipe_bytes[j - 1] = sent[j - 1]

\* a full pipeline whose middle stage selects pipes of its own, after every
\* byte of the head has reached the middle stage
C31_Witness ==
  /\ wire_ret = "ok"
  /\ Len(wire_cmds) = MaxStages
  /\ wire_cmds[2] = [stdin |-> Plain("piped"), stdout |-> Plain("piped")]
  /\ Len(sent[1]) = MaxSent
  /\ got[2] = sent[1]
  /\ Len(sent[2]) = MaxSent

\* the processes that hold the write end of pipe k open
WriteHolders(k) ==
  (IF \E fd \in wire_open : file_of[fd] = PipeFile(k, "w")
     THEN {0} ELSE {})
    \cup {j \in 1 .. Len(stage_state) :
            /\ stage_state[j] = "running"
            /\ PipeFile(k, "w") \in {child_files[j].stdin, child_files[j].stdout}}

\* C38: when Pipeline::spawn has returned, with success or with an error,
\* the parent holds no end of an inter-stage pipe, and once the stage writing
\* into a pipe has exited nobody holds the pipe's write end.
C38_NoPipeEndInParent ==
  wire_pc = "returned" =>
    /\ wire_open = {}
    /\ \A k \in 1 .. Len(wire_made) :
         (k <= Len(stage_state) /\ stage_state[k] = "exited")
           => WriteHolders(k) = {}

\* spawn failed at the last stage of a full pipeline, and the head has exited
C38_Witness ==
  /\ wire_pc = "returned"
  /\ wire_ret = "spawn_failed"
  /\ Len(wire_cmds) = MaxStages
  /\ Len(wire_made) = MaxStages - 1
  /\ Len(stage_state) = MaxStages - 1
  /\ stage_state[1] = "exited"
  /\ wire_open = {}

\* ------------------------------------------------------------- claim C32
\* the earlier take calls for the same stream of the same spawned object
EarlierTakes(i) ==
  {j \in 1 .. i - 1 :
     /\ take_log[j].id = take_log[i].id
     /\ take_log[j].name = take_log[i].name}

\* C32: a take call on an empty handle returns none; the first take call for
\* a stream of a Child or PipelineChild returns the pipe that was wrapped for
\* it (none if the stream was not piped); every later call for that stream
\* returns none.
C32_TakeAtMostOnce ==
  \A i \in 1 .. Len(take_log) :
    LET e == take_log[i] IN
      IF e.id = 0 THEN e.ret = Nullopt
      ELSE IF EarlierTakes(i) = {} THEN e.ret = tk_wrapped[e.id][e.name]
      ELSE e.ret = Nullopt

\* a piped stream taken, taken again after the handle was moved, and a call
\* on the moved-from handle
C32_Witness ==
  \E i, j, k \in 1 .. Len(take_log) :
    /\ i < j
    /\ take_log[i].id # 0
    /\ take_log[i].ret # Nullopt
    /\ take_log[j].id = take_log[i].id
    /\ take_log[j].name = take_log[i].name
    /\ take_log[k].id = 0
    /\ tk_handles[1].id = 0
    /\ tk_handles[2].id = take_log[i].id

\* ------------------------------------------------------ claims C34, C37
StepsOf(log) == [i \in 1 .. Len(log) |-> log[i].step]

IsPrefix(s, t) == Len(s) <= Len(t) /\ \A i \in 1 .. Len(s) : s[i] = t[i]

\* C34: within one Command::output call the steps are spawn, close of the
\* stdin writer, drain, wait, in this order; the drain never starts while the
\* parent holds the child's stdin writer, and wait is never called before the
\* captured streams are at end of file.
C34_OutputOrder ==
  out_op = "command" =>
    /\ IsPrefix(StepsOf(out_log), <<"spawn", "close_stdin", "drain", "wait">>)
    /\ \A i \in 1 .. Len(out_log) :
         /\ out_log[i].step = "drain" => ~out_log[i].writer_open
         /\ out_log[i].step = "wait" => out_log[i].eof

\* a Command::output call with piped stdin whose child reads to the end of
\* its stdin has gone through all four steps and returned
C34_Witness ==
  /\ out_op = "command"
  /\ out_ret = "ok"
  /\ ~out_eager
  /\ Len(out_log) = 4
  /\ out_log[1].writer_open

\* C37: a Pipeline::output call whose stages each exit at the end of file of
\* their stdin returns, also when the head's stdin is piped.
C37_PipelineOutputTerminates ==
  (out_op = "pipeline" /\ out_pc = "running") ~> (out_pc = "returned")

\* ------------------------------------------------------------- claim C33
\* the live objects that hold descriptor d
Owners(d) == {o \in PipeObjs \cup FdObjs : raii_alive[o] /\ raii_fd[o] = d}

\* C33: whatever moves, closes and destructions were applied, a descriptor
\* has at most one owner, was closed at most once, and was closed exactly
\* when it has no owner left.
C33_SingleOwner ==
  \A d \in 0 .. raii_made - 1 :
    /\ Cardinality(Owners(d)) <= 1
    /\ raii_closes[d] <= 1
    /\ (raii_closes[d] = 1) <=> (Owners(d) = {})

\* every kind of operation was applied, all descriptors were made, the first
\* is closed and the last is still owned
C33_Witness ==
  /\ raii_ops = {"construct", "move_construct", "move_assign", "self_assign",
                 "close", "destroy"}
  /\ raii_made = MaxOwned
  /\ raii_closes[0] = 1
  /\ Owners(MaxOwned - 1) # {}

\* ------------------------------------------------------ claims C35, C39
\* C35: as long as every scope that ended was the innermost live one,
\* default_backend() / default_clock() is the innermost live override, or the
\* built-in default when none is alive.
C35_NestedOverrides ==
  ov_nested =>
    default_backend = IF ov_live = <<>> THEN Nullptr ELSE Last(ov_live)

\* two nested overrides of different threads; the inner one has ended and the
\* outer one is active again
C35_Witness ==
  /\ ov_nested
  /\ ov_made = 2
  /\ ov_live = <<1>>
  /\ ov_stacks[1] = <<1>>
  /\ default_backend = 1

\* C39: once every scoped override has been destroyed, default_backend() /
\* default_clock() is the built-in default, for every interleaving of the
\* threads' constructions and destructions.
C39_AllDestroyedRestoresDefault ==
  ov_live = <<>> => default_backend = Nullptr

\* ------------------------------------------------------------- claim C36
\* C36: in wait_with_timeout a failed try_wait, terminate or kill is the last
\* WaitOps call of the call and its error is what the call returns; kill is
\* only called after a terminate of the same call that succeeded.
C36_ErrorsReturnAtOnce ==
  \A i \in 1 .. Len(ops_log) :
    /\ (ops_log[i].op \in {"try_wait", "terminate", "kill"} /\ ~ops_log[i].ok)
         => /\ i = Len(ops_log)
            /\ wpc = "done"
            /\ wait_ret = Err(IF ops_log[i].op = "try_wait" THEN "waitpid"
                                                            ELSE "kill")
    /\ ops_log[i].op = "kill"
         => \E j \in 1 .. i - 1 :
              ops_log[j].op = "terminate" /\ ops_log[j].ok

\* the grace period passed with the child running and kill failed
C36_Witness ==
  /\ wpc = "done"
  /\ ops_log # <<>>
  /\ Last(ops_log) = [op |-> "kill", ok |-> FALSE]
  /\ \E i \in 1 .. Len(ops_log) : ops_log[i] = [op |-> "try_wait", ok |-> TRUE]
  /\ wait_ret = Err("kill")

\* ------------------------------------------------------------- claim C40
\* the open file the SpawnSpec designates for a stream
Designated(spec, name) ==
  LET s == IF spec[name].kind = "dup_stdout" THEN spec.stdout ELSE spec[name]
      of == IF spec[name].kind = "dup_stdout" THEN "stdout" ELSE name
  IN CASE s.kind = "inherit" -> ParentFile(StdFd(of))
       [] s.kind = "null" -> NullFile(of)
       [] s.kind = "piped" -> ChildEnd(of)
       [] OTHER -> ParentFile(s.fd)

\* C40: in the executed child each of the descriptors 0, 1, 2 refers to the
\* open file the SpawnSpec designates for its stream, fd(n) meaning what n
\* referred to in the parent at spawn time.
C40_ChildStdio ==
  dup_pc = "execd" =>
    \A name \in StdStreams : dup_tbl[StdFd(name)] = Designated(dup_spec, name)

====
